---------------------------- MODULE Spec2Model ----------------------------
(***************************************************************************)
(* A model of the admission-control and webhook-notification core of the   *)
(* ignis backend.                                                          *)
(*                                                                         *)
(*   internal/services/rate_limiter.service.go   RateLimiterService,       *)
(*                                               InMemoryRateLimiter       *)
(*   unnamed/part_002 (webhook service)          WebhookService            *)
(*   internal/services/job.service.go            JobService                *)
(*                                                                         *)
(* Time is counted in ticks.  A time.Duration and a time.Now() reading are *)
(* tick counts; Go's integer division on a Duration is integer division on *)
(* the tick count.                                                         *)
(***************************************************************************)
EXTENDS Integers, Sequences, FiniteSets, TLC

(***************************************************************************)
(* Bounds of the model.                                                    *)
(***************************************************************************)
MaxLimit == 2
MaxClock == 2
MaxSeqClock == 4
MaxOps == 3
MaxSeqOps == 3

NumCallers == 3
Callers == 1..NumCallers
Keys == {"k1", "k2"}
ActiveKeys == {"k1"}
Limits == 1..MaxLimit
\* a route's window is never shorter than its limit counted in ticks
Windows == {MaxLimit, MaxLimit + 1}

(***************************************************************************)
(* Program constants.                                                      *)
(***************************************************************************)
ExpireSeconds == 3600
TickSeconds == 10 * 60
ExpireTicks == ExpireSeconds \div TickSeconds

NoBucket == [interval |-> -1, burst |-> -1, tokens |-> -1, last |-> -1]
NoExpiry == -1
NoReq == [key |-> "", limit |-> 0, window |-> 0, now |-> 0, windowStart |-> 0]

VARIABLES
    redisURL,     \* the address NewRateLimiterService was constructed with
    useRedis,     \* RateLimiterService.useRedis
    clock,        \* the wall clock, in ticks
    zset,         \* the backend's sorted set per key: the members (= scores)
    expireAt,     \* the backend's expiry per key, NoExpiry when none
    limiters,     \* InMemoryRateLimiter.limiters: key -> bucket or NoBucket
    cfgLimit,     \* the limit the route's configuration passes to Allow
    cfgWindow,    \* the window the route's configuration passes to Allow
    pc,           \* per caller: "idle", or "eval" while allowRedis awaits Eval
    req,          \* per caller: the arguments of the Eval in flight
    log,          \* every completed Allow / Reset / Cleanup, in completion order
    webhooks,     \* the webhooks table: id -> row
    jobs,         \* the jobs table: job id -> row
    events,       \* the webhook_events table: the rows, a row's id is its index
    tasks,        \* the delivery goroutines started so far
    dispatches,   \* every SendWebhookEvent call made so far
    nUpdates,     \* status updates taken from the bus so far
    keyed,        \* the GenerateRateLimitKey calls made: arguments and result
    served,       \* the requests the admission gates have answered, in order
    ctx,          \* the gin.Context of the request in flight, NoCtx when none
    published,    \* the jobs created and published to the "jobs" subject
    mutex,        \* InMemoryRateLimiter.mutex: the caller holding it, or NoHolder
    frame,        \* per caller, the in-memory call it is in or was last in
    made          \* every rate.NewLimiter call made so far

limiterVars == <<redisURL, useRedis, clock, zset, expireAt, limiters,
                 cfgLimit, cfgWindow, pc, req, log>>

webhookVars == <<webhooks, jobs, events, tasks, dispatches, nUpdates>>

gateVars == <<keyed, served, ctx, published>>

lockVars == <<mutex, frame, made>>

vars == <<limiterVars, webhookVars, gateVars, lockVars>>

(***************************************************************************)
(* NewRateLimiterService: the strategy is chosen once, from the address.   *)
(***************************************************************************)
RedisURLs == {"empty", "unparsable", "unreachable", "reachable"}

NewRateLimiterServiceIgnoringPing(url) ==
    [ useRedis |-> (url # "empty" /\ url # "unparsable"),
      limiters |-> [k \in Keys |-> NoBucket] ]

NewRateLimiterService(url) ==
    [ useRedis |-> (url # "empty" /\ url # "unparsable" /\ url # "unreachable"),
      limiters |-> [k \in Keys |-> NoBucket] ]

(***************************************************************************)
(* golang.org/x/time/rate as InMemoryRateLimiter.Allow uses it.            *)
(* rate.Every(window / time.Duration(limit)) is one token per `interval`   *)
(* ticks (rate.Inf when the interval is 0), burst = limit.  The bucket's   *)
(* token count is kept multiplied by the interval, so that it stays an     *)
(* integer: `tokens` ticks' worth of refill are in the bucket.             *)
(***************************************************************************)
Min(a, b) == IF a < b THEN a ELSE b

Every(window, limit) == window \div limit

NewLimiter(limit, window, now) ==
    [ interval |-> Every(window, limit),
      burst    |-> limit,
      tokens   |-> limit * Every(window, limit),
      last     |-> now ]

LimiterAllowNoRefill(b, now) ==
    IF b.tokens >= b.interval
    THEN [allowed |-> TRUE,
          bucket  |-> [b EXCEPT !.tokens = b.tokens - b.interval, !.last = now]]
    ELSE [allowed |-> FALSE, bucket |-> b]

\* rate.Limiter.Allow at time `now`: <<allowed, the bucket afterwards>>
LimiterAllow(b, now) ==
    IF b.interval = 0
    THEN [allowed |-> TRUE, bucket |-> b]
    ELSE LET last    == Min(b.last, now)
             tokens  == Min(b.burst * b.interval, b.tokens + (now - last))
         IN  IF tokens >= b.interval
             THEN [allowed |-> TRUE,
                   bucket  |-> [b EXCEPT !.tokens = tokens - b.interval,
                                         !.last = now]]
             ELSE [allowed |-> FALSE, bucket |-> b]

InMemoryAllowRebuilding(lims, k, limit, window, now) ==
    LET limiter == IF lims[k] = NoBucket \/ lims[k].burst # limit
                   THEN NewLimiter(limit, window, now)
                   ELSE lims[k]
        r == LimiterAllow(limiter, now)
    IN  [allowed |-> r.allowed, limiters |-> [lims EXCEPT ![k] = r.bucket]]

\* InMemoryRateLimiter.Allow, under its mutex: one indivisible step.
InMemoryAllow(lims, k, limit, window, now) ==
    LET limiter == IF lims[k] = NoBucket
                   THEN NewLimiter(limit, window, now)
                   ELSE lims[k]
        r == LimiterAllow(limiter, now)
    IN  [allowed |-> r.allowed, limiters |-> [lims EXCEPT ![k] = r.bucket]]

\* InMemoryRateLimiter.Reset
InMemoryReset(lims, k) == [lims EXCEPT ![k] = NoBucket]

(***************************************************************************)
(* The backend (Redis).  A key whose expiry has passed is gone.            *)
(***************************************************************************)
Live(k) ==
    IF expireAt[k] # NoExpiry /\ clock >= expireAt[k] THEN {} ELSE zset[k]

LiveExpiry(k) ==
    IF Live(k) = {} THEN NoExpiry ELSE expireAt[k]

ZRemRangeByScoreNothing(set, windowStart) == set

\* ZREMRANGEBYSCORE key -inf window_start: both ends inclusive
ZRemRangeByScore(set, windowStart) == {t \in set : t > windowStart}

LuaScriptRecordingDenied(set, windowStart, now, limit) ==
    LET kept == ZRemRangeByScore(set, windowStart)
    IN  [allowed |-> Cardinality(kept) < limit, members |-> kept \cup {now},
         expire |-> TRUE]

\* The Lua script of allowRedis, run on the members `set` of the key.
\* ZADD key now now: the member is the score, so adding a reading that is
\* already a member adds nothing.
LuaScript(set, windowStart, now, limit) ==
    LET kept    == ZRemRangeByScore(set, windowStart)
        current == Cardinality(kept)
    IN  IF current < limit
        THEN [allowed |-> TRUE,  members |-> kept \cup {now}, expire |-> TRUE]
        ELSE [allowed |-> FALSE, members |-> kept, expire |-> FALSE]

\* The key's state in the backend after the script ran at `clock`.
RunScript(k, r) ==
    LET s == LuaScript(Live(k), r.windowStart, r.now, r.limit)
    IN  [ allowed  |-> s.allowed,
          zset     |-> [zset EXCEPT ![k] = s.members],
          expireAt |-> [expireAt EXCEPT ![k] =
                           IF s.expire THEN clock + ExpireTicks
                           ELSE IF s.members = {} THEN NoExpiry
                           ELSE LiveExpiry(k)] ]

(***************************************************************************)
(* The log of completed calls.                                             *)
(***************************************************************************)
AllowEntry(k, l, w, at, allowed, path) ==
    [op |-> "allow", key |-> k, limit |-> l, window |-> w,
     at |-> at, allowed |-> allowed, path |-> path]

ResetEntry(k, ok) ==
    [op |-> "reset", key |-> k, limit |-> 0, window |-> 0,
     at |-> clock, allowed |-> ok, path |-> IF useRedis THEN "redis" ELSE "local"]

CleanupEntry ==
    [op |-> "cleanup", key |-> "", limit |-> 0, window |-> 0,
     at |-> clock, allowed |-> TRUE, path |-> "local"]

\* A round trip to the backend takes longer than the clock's resolution: a
\* call that starts after another has returned reads a later time.Now().
LaterCall(e) ==
    (e.op = "allow" /\ e.path = "redis") => clock > e.at

(***************************************************************************)
(* Init: the service as constructed, nothing recorded anywhere.            *)
(***************************************************************************)
InitLimiter(urls, limits, windows) ==
    /\ redisURL \in urls
    /\ useRedis = NewRateLimiterService(redisURL).useRedis
    /\ limiters = NewRateLimiterService(redisURL).limiters
    /\ clock = 0
    /\ zset = [k \in Keys |-> {}]
    /\ expireAt = [k \in Keys |-> NoExpiry]
    /\ cfgLimit \in limits
    /\ cfgWindow \in windows
    /\ pc = [c \in Callers |-> "idle"]
    /\ req = [c \in Callers |-> NoReq]
    /\ log = <<>>


\* no key generated yet, no request answered yet
NoCred == [kind |-> "none", id |-> <<>>]

NoAPIKey == [ID |-> 0, ClerkUserID |-> <<>>, RateLimit |-> 0]

NoCtx == [route |-> <<>>, cred |-> NoCred, handlers |-> <<>>, index |-> 0,
          aborted |-> FALSE, status |-> 0, body |-> <<>>, headers |-> {},
          authType |-> "unknown", userID |-> <<>>, apiKey |-> NoAPIKey,
          trace |-> <<>>]

\* the mutex as constructed: unlocked, and no in-memory call made yet
NoHolder == 0

NoFrame == [op |-> "", key |-> "", limit |-> 0, window |-> 0, path |-> "",
            first |-> FALSE, exists |-> FALSE, allowed |-> FALSE, at |-> 0]

InitLock ==
    /\ mutex = NoHolder
    /\ frame = [c \in Callers |-> NoFrame]
    /\ made = <<>>

InitGate ==
    /\ keyed = {}
    /\ served = <<>>
    /\ ctx = NoCtx
    /\ published = <<>>

(***************************************************************************)
(* RateLimiterService.Allow.  In local mode the whole call is one step     *)
(* under the mutex.  In coordinated mode allowRedis reads time.Now() and   *)
(* sends the script; the script runs later, in EvalOk or EvalErr.          *)
(***************************************************************************)
Allow(c, k, l, w, maxOps) ==
    /\ pc[c] = "idle"
    /\ \A d \in Callers : d < c => pc[d] # "idle"
    /\ Len(log) + Cardinality({d \in Callers : pc[d] = "eval"}) < maxOps
    /\ IF useRedis
       THEN /\ \A i \in DOMAIN log : LaterCall(log[i])
            /\ pc' = [pc EXCEPT ![c] = "eval"]
            /\ req' = [req EXCEPT ![c] =
                         [key |-> k, limit |-> l, window |-> w,
                          now |-> clock, windowStart |-> clock - w]]
            /\ UNCHANGED <<limiters, log>>
       ELSE /\ LET r == InMemoryAllow(limiters, k, l, w, clock)
               IN  /\ limiters' = r.limiters
                   /\ log' = Append(log, AllowEntry(k, l, w, clock,
                                                    r.allowed, "local"))
            /\ UNCHANGED <<pc, req>>
    /\ UNCHANGED <<webhookVars, gateVars, lockVars>>
    /\ UNCHANGED <<redisURL, useRedis, clock, zset, expireAt, cfgLimit, cfgWindow>>

\* allowRedis, Eval returned a result.
EvalOk(c) ==
    /\ pc[c] = "eval"
    /\ LET r == req[c]
           s == RunScript(r.key, r)
       IN  /\ zset' = s.zset
           /\ expireAt' = s.expireAt
           /\ log' = Append(log, AllowEntry(r.key, r.limit, r.window, r.now,
                                            s.allowed, "redis"))
    /\ pc' = [pc EXCEPT ![c] = "idle"]
    /\ req' = [req EXCEPT ![c] = NoReq]
    /\ UNCHANGED <<webhookVars, gateVars, lockVars>>
    /\ UNCHANGED <<redisURL, useRedis, clock, limiters, cfgLimit, cfgWindow>>

FallbackDenies(lims, r, now) == [allowed |-> FALSE, limiters |-> lims]

\* allowRedis on an Eval error: return r.inMemoryLimiter.Allow(key, limit, window), nil
Fallback(lims, r, now) == InMemoryAllow(lims, r.key, r.limit, r.window, now)

\* allowRedis, Eval returned an error: the call is decided by the in-memory
\* limiter.  The script either never ran or ran and its reply was lost.
EvalErr(c, ran) ==
    /\ pc[c] = "eval"
    /\ LET r == req[c]
           s == RunScript(r.key, r)
           m == Fallback(limiters, r, clock)
       IN  /\ zset' = IF ran THEN s.zset ELSE zset
           /\ expireAt' = IF ran THEN s.expireAt ELSE expireAt
           /\ limiters' = m.limiters
           /\ log' = Append(log, AllowEntry(r.key, r.limit, r.window, clock,
                                            m.allowed, "fallback"))
    /\ pc' = [pc EXCEPT ![c] = "idle"]
    /\ req' = [req EXCEPT ![c] = NoReq]
    /\ UNCHANGED <<webhookVars, gateVars, lockVars>>
    /\ UNCHANGED <<redisURL, useRedis, clock, cfgLimit, cfgWindow>>

(***************************************************************************)
(* RateLimiterService.Reset: DEL in coordinated mode (it may fail), the    *)
(* in-memory bucket otherwise.                                             *)
(***************************************************************************)
Reset(c, k, ok, maxOps) ==
    /\ pc[c] = "idle"
    /\ \A d \in Callers : d < c => pc[d] # "idle"
    /\ Len(log) + Cardinality({d \in Callers : pc[d] = "eval"}) < maxOps
    /\ IF useRedis
       THEN /\ zset' = IF ok THEN [zset EXCEPT ![k] = {}] ELSE zset
            /\ expireAt' = IF ok THEN [expireAt EXCEPT ![k] = NoExpiry]
                           ELSE expireAt
            /\ log' = Append(log, ResetEntry(k, ok))
            /\ UNCHANGED limiters
       ELSE /\ ok
            /\ limiters' = InMemoryReset(limiters, k)
            /\ log' = Append(log, ResetEntry(k, TRUE))
            /\ UNCHANGED <<zset, expireAt>>
    /\ UNCHANGED <<webhookVars, gateVars, lockVars>>
    /\ UNCHANGED <<redisURL, useRedis, clock, cfgLimit, cfgWindow, pc, req>>

InMemoryCleanupOfSpent(lims) ==
    [k \in Keys |-> IF lims[k].tokens < lims[k].interval THEN NoBucket
                    ELSE lims[k]]

\* InMemoryRateLimiter.Cleanup: i.limiters = make(map[string]*rate.Limiter)
InMemoryCleanup(lims) == [k \in Keys |-> NoBucket]

\* InMemoryRateLimiter.Cleanup, under its mutex: one indivisible step.
Cleanup(maxOps) ==
    /\ Len(log) + Cardinality({d \in Callers : pc[d] = "eval"}) < maxOps
    /\ \E k \in Keys : limiters[k] # NoBucket
    /\ limiters' = InMemoryCleanup(limiters)
    /\ log' = Append(log, CleanupEntry)
    /\ UNCHANGED <<webhookVars, gateVars, lockVars>>
    /\ UNCHANGED <<redisURL, useRedis, clock, zset, expireAt, cfgLimit,
                   cfgWindow, pc, req>>

Tick(max) ==
    /\ clock < max
    /\ clock' = clock + 1
    /\ UNCHANGED <<webhookVars, gateVars, lockVars>>
    /\ UNCHANGED <<redisURL, useRedis, zset, expireAt, limiters, cfgLimit,
                   cfgWindow, pc, req, log>>

(***************************************************************************)
(* The webhook dispatcher.  Times of a delivery are counted in seconds     *)
(* since its goroutine started.                                            *)
(***************************************************************************)
MaxUpdates == 2
MaxTasks == 1
MaxFanout == 2

Users == {"u1", "u2"}
WebhookIds == {1, 2}
EventTypes == {"job.completed", "job.failed"}
JobIds == {"j1"}
BusStatuses == {"received", "running", "done", "failed", "bogus"}
\* what httpClient.Do gives: 0 is a transport error, else the status code
Replies == {0, 200, 500}

maxRetries == 3
baseDelay == 2
OneHour == 3600
NoTime == -1

WebhookRow(owner, evs, active) ==
    [owner |-> owner, events |-> evs, active |-> active, deleted |-> FALSE,
     secret |-> ""]

Secrets == {"", "s1"}

WithSecret(row, secret) == [row EXCEPT !.secret = secret]

\* models.JobWebhookPayload for an event of a job
JobWebhookPayload(eventType, jobID) == [event |-> eventType, job |-> jobID]

\* json.Marshal(payload): the bytes, as a sequence of pieces
Marshal(payload) == <<"{event:", payload.event, ",job:", payload.job, "}">>

\* hmac.New(sha256.New, key) over `bytes`: a keyed digest that differs
\* whenever the key or the bytes differ
HmacSHA256(key, bytes) == <<"hmac-sha256", key, bytes>>

generateHMACSignature(payload, secret) == <<"hex", HmacSHA256(secret, payload)>>

NoHeader == <<>>

SignatureHeaderAlways(payloadBytes, secret) ==
    <<"sha256=", generateHMACSignature(payloadBytes, secret)>>

\* the X-Webhook-Signature header of a request, NoHeader when not set
SignatureHeader(payloadBytes, secret) ==
    IF secret # ""
    THEN <<"sha256=", generateHMACSignature(payloadBytes, secret)>>
    ELSE NoHeader

WebhookRows(owners, eventSets, actives) ==
    {WebhookRow(o, e, a) : o \in owners, e \in eventSets, a \in actives}

InitWebhooks(rows1, rows2) ==
    /\ webhooks \in {[w \in WebhookIds |-> IF w = 1 THEN r1 ELSE r2] :
                        r1 \in rows1, r2 \in rows2}
    /\ jobs = [j \in JobIds |-> [status |-> "received", owner |-> "u1"]]
    /\ events = <<>>
    /\ tasks = <<>>
    /\ dispatches = <<>>
    /\ nUpdates = 0

\* FindWhere("clerk_user_id = ? AND is_active = ?", user, true), soft-deleted
\* rows left out, then the filter by event type (SendWebhookEvent)
SubscribedWebhooks(table, user, eventType) ==
    {w \in WebhookIds : /\ table[w].owner = user
                        /\ table[w].active
                        /\ ~table[w].deleted
                        /\ eventType \in table[w].events}

\* models.WebhookEvent as sendWebhookEventAsync builds it
NewWebhookEvent(w, eventType, jobID) ==
    [webhookId |-> w, eventType |-> eventType, jobId |-> jobID,
     attemptCount |-> 0, delivered |-> FALSE, statusCode |-> 0,
     response |-> "", nextRetryAt |-> NoTime,
     payload |-> Marshal(JobWebhookPayload(eventType, jobID))]

NewTaskSentInline(w, d, eventType, jobID) ==
    [wid |-> w, dispatch |-> d, pc |-> "wait", attempt |-> 0, now |-> 0,
     rid |-> 0, ev |-> NewWebhookEvent(w, eventType, jobID),
     payload |-> Marshal(JobWebhookPayload(eventType, jobID)),
     secret |-> webhooks[w].secret,
     posts |-> <<[attempt |-> 1, at |-> 0, reply |-> -1, delivery |-> 0,
                  body |-> Marshal(JobWebhookPayload(eventType, jobID)),
                  signature |-> NoHeader]>>]

\* one goroutine of `go s.sendWebhookEventAsync(webhook, payload, job.JobID)`
NewTask(w, d, eventType, jobID) ==
    [wid |-> w, dispatch |-> d, pc |-> "create", attempt |-> 0, now |-> 0,
     rid |-> 0, ev |-> NewWebhookEvent(w, eventType, jobID),
     payload |-> Marshal(JobWebhookPayload(eventType, jobID)),
     secret |-> webhooks[w].secret,
     posts |-> <<>>]

RECURSIVE SetToSeq(_)
SetToSeq(S) ==
    IF S = {} THEN <<>>
    ELSE LET x == CHOOSE y \in S : \A z \in S : y <= z
         IN  <<x>> \o SetToSeq(S \ {x})

\* SendWebhookEvent: <<the tasks started, the call's entry in dispatches>>
SendWebhookEvent(jobID, user, eventType, findOk) ==
    LET subscribed == IF findOk
                      THEN SetToSeq(SubscribedWebhooks(webhooks, user, eventType))
                      ELSE <<>>
        d == Len(dispatches) + 1
    IN  [ started  |-> [i \in DOMAIN subscribed |->
                           NewTask(subscribed[i], d, eventType, jobID)],
          dispatch |-> [job |-> jobID, owner |-> user, event |-> eventType,
                        table |-> webhooks, failed |-> ~findOk] ]

JobStatusOfCoercing(st) ==
    CASE st = "received" -> "received"
      [] st = "running"  -> "running"
      [] st = "done"     -> "completed"
      [] OTHER           -> "failed"

\* updateJobStatus: the status string of the bus as a JobStatus, "" if unknown
JobStatusOf(st) ==
    CASE st = "received" -> "received"
      [] st = "running"  -> "running"
      [] st = "done"     -> "completed"
      [] st = "failed"   -> "failed"
      [] OTHER           -> ""

EventTypeOfCompleted(status) == "job.completed"

\* updateJobStatus: the event type of a terminal status
EventTypeOf(status) ==
    IF status = "completed" THEN "job.completed" ELSE "job.failed"

updateJobStatusReturnsDispatchError(st, db) ==
    IF db = "FindOne" THEN "job not found"
    ELSE IF JobStatusOf(st) = "" THEN "unknown status"
    ELSE IF db = "Update" THEN "failed to update job"
    ELSE IF db = "FindWhere" /\ JobStatusOf(st) \in {"completed", "failed"}
    THEN "failed to send webhook event"
    ELSE "nil"

\* what updateJobStatus returns: the error, or "nil"
updateJobStatusReturns(st, db) ==
    IF db = "FindOne" THEN "job not found"
    ELSE IF JobStatusOf(st) = "" THEN "unknown status"
    ELSE IF db = "Update" THEN "failed to update job"
    ELSE "nil"

\* updateJobStatus, called for one message of the bus.  db names the storage
\* call that fails, if one does.
updateJobStatus(id, st, db, maxTasks) ==
    /\ nUpdates < MaxUpdates
    /\ nUpdates' = nUpdates + 1
    /\ LET status == JobStatusOf(st)
           sent   == SendWebhookEvent(id, jobs[id].owner, EventTypeOf(status),
                                      db # "FindWhere")
       IN  IF db = "FindOne" \/ status = "" \/ db = "Update"
           THEN UNCHANGED <<jobs, tasks, dispatches>>
           ELSE /\ jobs' = [jobs EXCEPT ![id].status = status]
                /\ IF status = "completed" \/ status = "failed"
                   THEN /\ Len(tasks) + Len(sent.started) <= maxTasks
                        /\ tasks' = tasks \o sent.started
                        /\ dispatches' = Append(dispatches, sent.dispatch)
                   ELSE UNCHANGED <<tasks, dispatches>>
    /\ UNCHANGED <<webhooks, events>>
    /\ UNCHANGED <<limiterVars, gateVars, lockVars>>

\* DeleteWebhook: the row is found (it is the user's and not yet deleted) and
\* soft-deleted
DeleteWebhook(id, user) ==
    /\ webhooks[id].owner = user
    /\ ~webhooks[id].deleted
    /\ webhooks' = [webhooks EXCEPT ![id].deleted = TRUE]
    /\ UNCHANGED <<jobs, events, tasks, dispatches, nUpdates>>
    /\ UNCHANGED <<limiterVars, gateVars, lockVars>>

\* sendWebhookEventAsync up to the call of sendWebhookWithRetries
CreateEventRecord(t, createOk) ==
    /\ tasks[t].pc = "create"
    /\ IF createOk
       THEN /\ events' = Append(events, tasks[t].ev)
            /\ tasks' = [tasks EXCEPT ![t].rid = Len(events) + 1,
                                      ![t].pc = "send"]
       ELSE /\ tasks' = [tasks EXCEPT ![t].pc = "done"]
            /\ UNCHANGED events
    /\ UNCHANGED <<webhooks, jobs, dispatches, nUpdates>>
    /\ UNCHANGED <<limiterVars, gateVars, lockVars>>

SendRequestOverlapping(t) ==
    /\ tasks[t].pc \in {"send", "wait"}
    /\ Len(tasks[t].posts) < maxRetries
    /\ tasks' = [tasks EXCEPT
          ![t].ev.attemptCount = Len(tasks[t].posts) + 1,
          ![t].posts = Append(tasks[t].posts,
                              [attempt |-> Len(tasks[t].posts) + 1,
                               at      |-> tasks[t].now,
                               reply   |-> -1,
                               delivery |-> tasks[t].rid,
                               body    |-> tasks[t].payload,
                               signature |->
                                   SignatureHeader(tasks[t].payload,
                                                   tasks[t].secret)]),
          ![t].pc = "wait"]
    /\ UNCHANGED <<webhooks, jobs, events, dispatches, nUpdates>>
    /\ UNCHANGED <<limiterVars, gateVars, lockVars>>

SendRequestRemarshalling(t) ==
    /\ tasks[t].pc = "send"
    /\ tasks' = [tasks EXCEPT
          ![t].ev.attemptCount = tasks[t].attempt + 1,
          ![t].posts = Append(tasks[t].posts,
                              [attempt |-> tasks[t].attempt + 1,
                               at      |-> tasks[t].now,
                               reply   |-> -1,
                               delivery |-> tasks[t].rid,
                               body    |-> Marshal(JobWebhookPayload(
                                              tasks[t].ev.eventType,
                                              IF tasks[t].attempt = 0
                                              THEN tasks[t].ev.jobId
                                              ELSE "retried")),
                               signature |->
                                   SignatureHeader(
                                       Marshal(JobWebhookPayload(
                                           tasks[t].ev.eventType,
                                           IF tasks[t].attempt = 0
                                           THEN tasks[t].ev.jobId
                                           ELSE "retried")),
                                       tasks[t].secret)]),
          ![t].pc = "wait"]
    /\ UNCHANGED <<webhooks, jobs, events, dispatches, nUpdates>>
    /\ UNCHANGED <<limiterVars, gateVars, lockVars>>

\* sendWebhookWithRetries, one iteration up to httpClient.Do: the POST leaves
SendRequest(t) ==
    /\ tasks[t].pc = "send"
    /\ tasks' = [tasks EXCEPT
          ![t].ev.attemptCount = tasks[t].attempt + 1,
          ![t].posts = Append(tasks[t].posts,
                              [attempt |-> tasks[t].attempt + 1,
                               at      |-> tasks[t].now,
                               reply   |-> -1,
                               delivery |-> tasks[t].rid,
                               body    |-> tasks[t].payload,
                               signature |->
                                   SignatureHeader(tasks[t].payload,
                                                   tasks[t].secret)]),
          ![t].pc = "wait"]
    /\ UNCHANGED <<webhooks, jobs, events, dispatches, nUpdates>>
    /\ UNCHANGED <<limiterVars, gateVars, lockVars>>

IsSuccessAbove200(statusCode) == statusCode > 200 /\ statusCode < 300

IsSuccess(statusCode) == statusCode >= 200 /\ statusCode < 300

BackoffConstant(attempt) == baseDelay

\* delay := time.Duration(attempt+1) * baseDelay
Backoff(attempt) == (attempt + 1) * baseDelay

NextRetryWithoutHour(now) == now

NextRetry(now) == now + OneHour

\* the in-memory record after httpClient.Do returned `reply`
AfterReply(ev, reply) ==
    IF reply = 0
    THEN [ev EXCEPT !.response = "transport error"]
    ELSE [ev EXCEPT !.statusCode = reply,
                    !.response = IF IsSuccess(reply) THEN "ok body" ELSE "error body",
                    !.delivered = IF IsSuccess(reply) THEN TRUE ELSE ev.delivered]

HandleReplyOneMore(t, reply) ==
    /\ tasks[t].pc = "wait"
    /\ LET k    == tasks[t]
           n    == Len(k.posts)
           ev1  == AfterReply(k.ev, reply)
           last == ~(k.attempt < maxRetries)
           ev2  == IF (reply = 0 \/ ~IsSuccess(reply)) /\ last
                   THEN [ev1 EXCEPT !.nextRetryAt = NextRetry(k.now)]
                   ELSE ev1
       IN  /\ events' = [events EXCEPT ![k.rid] = ev2]
           /\ tasks' = [tasks EXCEPT
                 ![t].ev = ev2,
                 ![t].posts[n].reply = reply,
                 ![t].pc = IF reply # 0 /\ IsSuccess(reply) THEN "done"
                           ELSE IF last THEN "done" ELSE "sleep"]
    /\ UNCHANGED <<webhooks, jobs, dispatches, nUpdates>>
    /\ UNCHANGED <<limiterVars, gateVars, lockVars>>

\* sendWebhookWithRetries, the rest of the iteration: the reply is taken, the
\* record updated and saved; after the last failed attempt the deferred
\* retry is scheduled and the record saved again.
HandleReply(t, reply) ==
    /\ tasks[t].pc = "wait"
    /\ LET k    == tasks[t]
           n    == Len(k.posts)
           ev1  == AfterReply(k.ev, reply)
           last == ~(k.attempt < maxRetries - 1)
           ev2  == IF (reply = 0 \/ ~IsSuccess(reply)) /\ last
                   THEN [ev1 EXCEPT !.nextRetryAt = NextRetry(k.now)]
                   ELSE ev1
       IN  /\ events' = [events EXCEPT ![k.rid] = ev2]
           /\ tasks' = [tasks EXCEPT
                 ![t].ev = ev2,
                 ![t].posts[n].reply = reply,
                 ![t].pc = IF reply # 0 /\ IsSuccess(reply) THEN "done"
                           ELSE IF last THEN "done" ELSE "sleep"]
    /\ UNCHANGED <<webhooks, jobs, dispatches, nUpdates>>
    /\ UNCHANGED <<limiterVars, gateVars, lockVars>>

\* time.Sleep(delay) is over: the next iteration starts
Wake(t) ==
    /\ tasks[t].pc = "sleep"
    /\ tasks' = [tasks EXCEPT ![t].now = tasks[t].now + Backoff(tasks[t].attempt),
                              ![t].attempt = tasks[t].attempt + 1,
                              ![t].pc = "send"]
    /\ UNCHANGED <<webhooks, jobs, events, dispatches, nUpdates>>
    /\ UNCHANGED <<limiterVars, gateVars, lockVars>>

TaskStepInTurn(t) ==
    /\ \A u \in 1..(t - 1) : tasks[u].pc = "done"
    /\ \/ \E ok \in BOOLEAN : CreateEventRecord(t, ok)
       \/ SendRequest(t)
       \/ \E reply \in Replies : HandleReply(t, reply)
       \/ Wake(t)

\* one step of the goroutine t
TaskStep(t) ==
    \/ \E ok \in BOOLEAN : CreateEventRecord(t, ok)
    \/ SendRequest(t)
    \/ \E reply \in Replies : HandleReply(t, reply)
    \/ Wake(t)

DeliveryStep == \E t \in DOMAIN tasks : TaskStep(t)

StorageFailures == {"none", "FindOne", "Update", "FindWhere"}

NextWebhook(maxTasks) ==
    \/ \E id \in JobIds, st \in BusStatuses, db \in StorageFailures :
          updateJobStatus(id, st, db, maxTasks)
    \/ \E id \in WebhookIds, u \in Users : DeleteWebhook(id, u)
    \/ DeliveryStep

\* Webhook 1 is the job owner's, active and subscribed to job.completed;
\* webhook 2 varies in owner, subscription and activity.
InitDelivery ==
    /\ InitLimiter({"empty"}, {1}, {2})
    /\ InitGate
    /\ InitLock
    /\ InitWebhooks(WebhookRows({"u1"}, {{"job.completed"}}, {TRUE}),
                    { WebhookRow("u1", {"job.failed"}, TRUE),
                      WebhookRow("u1", EventTypes, TRUE),
                      WebhookRow("u2", {"job.completed"}, TRUE),
                      WebhookRow("u1", {"job.completed"}, FALSE) })

InitFanout ==
    /\ InitLimiter({"empty"}, {1}, {2})
    /\ InitGate
    /\ InitLock
    /\ InitWebhooks(WebhookRows({"u1"}, {{"job.completed"}}, {TRUE}),
                    WebhookRows({"u1"}, {EventTypes}, {TRUE}))

NextDelivery == NextWebhook(MaxTasks)

SpecDelivery == InitDelivery /\ [][NextDelivery]_vars

\* The scheduler runs every goroutine that can take a step.
FairDelivery ==
    \A t \in 1..MaxTasks : WF_vars(t \in DOMAIN tasks /\ TaskStep(t))

SpecDeliveryLive == SpecDelivery /\ FairDelivery

NextFanout == NextWebhook(MaxFanout)

SpecFanout == InitFanout /\ [][NextFanout]_vars

(***************************************************************************)
(* Spec: any number of callers, concurrently.                              *)
(***************************************************************************)
Next ==
    \/ Tick(MaxClock)
    \/ \E c \in Callers, k \in ActiveKeys : Allow(c, k, cfgLimit, cfgWindow, MaxOps)
    \/ \E c \in Callers : EvalOk(c)
    \/ \E c \in Callers, ran \in BOOLEAN : EvalErr(c, ran)
    \/ \E c \in Callers, k \in ActiveKeys, ok \in BOOLEAN : Reset(c, k, ok, MaxOps)
    \/ Cleanup(MaxOps)

Init ==
    /\ InitLimiter({"empty", "reachable"}, Limits, Windows)
    /\ InitGate
    /\ InitLock
    /\ InitWebhooks(WebhookRows({"u1"}, {{"job.completed"}}, {TRUE}),
                    WebhookRows({"u1"}, {{"job.completed"}}, {TRUE}))

Spec == Init /\ [][Next]_vars

(***************************************************************************)
(* SpecSeq: one caller, its calls one after the other.                     *)
(***************************************************************************)
NextSeq ==
    \/ Tick(MaxSeqClock)
    \/ \E k \in ActiveKeys : Allow(1, k, cfgLimit, cfgWindow, MaxSeqOps)
    \/ EvalOk(1)
    \/ \E ran \in BOOLEAN : EvalErr(1, ran)
    \/ \E k \in ActiveKeys, ok \in BOOLEAN : Reset(1, k, ok, MaxSeqOps)
    \/ Cleanup(MaxSeqOps)

SpecSeq == Init /\ [][NextSeq]_vars

(***************************************************************************)
(* Helpers over the log.                                                   *)
(***************************************************************************)
AllowsOf(k) == {i \in DOMAIN log : log[i].op = "allow" /\ log[i].key = k}

NoResetLogged == \A i \in DOMAIN log : log[i].op # "reset"

\* the calls the backend's script admitted for k with a reading in (lo, hi]
ScriptAdmitted(k, lo, hi) ==
    {i \in AllowsOf(k) : /\ log[i].path = "redis"
                         /\ log[i].allowed
                         /\ log[i].at > lo
                         /\ log[i].at <= hi}

(***************************************************************************)
(* C1: in coordinated mode, with no Reset in between, the calls the        *)
(* backend admits for a key with time readings inside any one window of    *)
(* length W are never more than the limit L, however many callers run      *)
(* concurrently.                                                           *)
(***************************************************************************)
NoOverAdmission ==
    (useRedis /\ NoResetLogged) =>
        \A k \in Keys, t \in 0..clock :
            Cardinality(ScriptAdmitted(k, t - cfgWindow, t)) <= cfgLimit

(***************************************************************************)
(* Helpers over the dispatches and the goroutines they started.            *)
(***************************************************************************)
\* the subscriptions dispatch d should reach: the owner's active, not
\* deleted subscriptions whose event set holds the event, in the table as
\* it was when SendWebhookEvent was called
Matched(d) ==
    {w \in WebhookIds : /\ dispatches[d].table[w].owner = dispatches[d].owner
                        /\ dispatches[d].table[w].active
                        /\ ~dispatches[d].table[w].deleted
                        /\ dispatches[d].event \in dispatches[d].table[w].events}

TasksOf(d, w) ==
    {t \in DOMAIN tasks : tasks[t].dispatch = d /\ tasks[t].wid = w}

Attempted(d, w) == \E t \in TasksOf(d, w) : tasks[t].posts # <<>>

(***************************************************************************)
(* C2: for every dispatch and every subscription it matches, a POST to     *)
(* that subscription is eventually sent, provided every goroutine keeps    *)
(* running.                                                                *)
(***************************************************************************)
AtLeastOneAttempt ==
    \A d \in 1..MaxUpdates, w \in WebhookIds :
        (d \in DOMAIN dispatches /\ w \in Matched(d)) ~> Attempted(d, w)

(***************************************************************************)
(* C3: no step sends a POST for a subscription that is soft-deleted when   *)
(* the POST leaves.                                                        *)
(***************************************************************************)
PostLeaves(t) == Len(tasks'[t].posts) > Len(tasks[t].posts)

NoPostToDeleted ==
    [][\A t \in DOMAIN tasks :
          PostLeaves(t) => ~webhooks[tasks[t].wid].deleted]_vars

(***************************************************************************)
(* SpecRetry: the retry loop on its own.  Webhook 1 takes job.completed,   *)
(* webhook 2 job.failed; every terminal update starts one delivery.        *)
(***************************************************************************)
InitRetry ==
    /\ InitLimiter({"empty"}, {1}, {2})
    /\ InitGate
    /\ InitLock
    /\ InitWebhooks(WebhookRows({"u1"}, {{"job.completed"}}, {TRUE}),
                    WebhookRows({"u1"}, {{"job.failed"}}, {TRUE}))

NextRetryLoop ==
    \/ \E id \in JobIds, st \in {"done", "failed"} :
          updateJobStatus(id, st, "none", MaxTasks)
    \/ \E id \in WebhookIds, u \in Users : DeleteWebhook(id, u)
    \/ DeliveryStep

SpecRetry == InitRetry /\ [][NextRetryLoop]_vars

(***************************************************************************)
(* Helpers over the replies a delivery got.                                *)
(***************************************************************************)
Is2xx(reply) == reply >= 200 /\ reply <= 299

\* the endpoint answered, with a status outside 200..299
IsNon2xx(reply) == reply > 0 /\ ~Is2xx(reply)

Finished(t) == tasks[t].pc = "done" /\ tasks[t].posts # <<>>

AlwaysNon2xx(t) ==
    \A i \in DOMAIN tasks[t].posts : IsNon2xx(tasks[t].posts[i].reply)

RecordsOf(d) ==
    {t \in DOMAIN tasks : tasks[t].dispatch = d /\ tasks[t].rid # 0}

Settled(d) ==
    \A t \in DOMAIN tasks : tasks[t].dispatch = d => tasks[t].pc # "create"

RecordsEqualMatches ==
    \A d \in DOMAIN dispatches :
        /\ Cardinality(RecordsOf(d)) <= Cardinality(Matched(d))
        /\ Settled(d) => Cardinality(RecordsOf(d)) = Cardinality(Matched(d))

(***************************************************************************)
(* C7: the webhook_events table never holds two records for the same       *)
(* subscription, job and event kind.                                       *)
(***************************************************************************)
LogicalEvent(e) == <<e.webhookId, e.jobId, e.eventType>>

OneRecordPerLogicalEvent ==
    \A i, j \in DOMAIN events :
        i # j => LogicalEvent(events[i]) # LogicalEvent(events[j])

(***************************************************************************)
(* Helpers over the calls of one caller (SpecSeq): the log is the order    *)
(* of the calls.                                                           *)
(***************************************************************************)
\* the first n operations on the service were Allow calls
FirstCalls(n) == Len(log) >= n /\ \A i \in 1..n : log[i].op = "allow"

ActivePath == IF useRedis THEN "redis" ELSE "local"

\* each of the first n calls was decided by the active strategy
ByStrategy(n) == \A i \in 1..n : log[i].path = ActivePath

\* Call n follows call 1 immediately: all earlier readings are still
\* inside the window (coordinated), no token has been refilled (local).
Immediate(n) ==
    log[n].at - log[1].at <
        (IF useRedis THEN cfgWindow ELSE cfgWindow \div cfgLimit)

AllowAfterReset ==
    \A i \in DOMAIN log :
        (/\ i > 1
         /\ log[i].op = "allow"
         /\ log[i - 1].op = "reset"
         /\ log[i - 1].key = log[i].key
         /\ log[i - 1].allowed)
            => log[i].allowed

(***************************************************************************)
(* C10: the local token bucket.  When `limit` calls in a row are admitted  *)
(* and the call after them comes less than one refill interval             *)
(* (window / limit) after the first of them, that call is denied; a call   *)
(* that comes a full window or more after every earlier call is admitted.  *)
(***************************************************************************)
\* calls i .. j of the log are Allow calls, one after the other
CallsInARow(i, j) ==
    j <= Len(log) /\ \A n \in i..j : log[n].op = "allow"

InitModes ==
    /\ InitLimiter(RedisURLs, {1}, {MaxLimit})
    /\ InitGate
    /\ InitLock
    /\ InitWebhooks(WebhookRows({"u1"}, {{"job.completed"}}, {TRUE}),
                    WebhookRows({"u1"}, {{"job.completed"}}, {TRUE}))

SpecModes == InitModes /\ [][NextSeq]_vars

\* the backend was never contacted: no Eval in flight, nothing stored, and
\* every completed call was served by the in-memory limiter
BackendUntouched ==
    /\ \A c \in Callers : pc[c] = "idle"
    /\ \A k \in Keys : zset[k] = {} /\ expireAt[k] = NoExpiry
    /\ \A i \in DOMAIN log : log[i].path = "local"

(***************************************************************************)
(* C11: the strategy is the one chosen at construction, in every state;    *)
(* a service constructed with an empty or unparsable address, or whose     *)
(* probe failed, serves every Allow and Reset from the in-memory limiter   *)
(* and never contacts the backend.                                         *)
(***************************************************************************)
StrategyChosenOnce ==
    /\ useRedis = (redisURL = "reachable")
    /\ redisURL \in {"empty", "unparsable", "unreachable"} => BackendUntouched

StrategyChosenOnceWitness ==
    /\ redisURL = "unreachable"
    /\ \E i \in DOMAIN log : log[i].op = "allow" /\ ~log[i].allowed
    /\ \E i \in DOMAIN log : log[i].op = "reset"

(***************************************************************************)
(* C12: in coordinated mode a call whose Eval fails returns what the       *)
(* in-memory limiter decides for the call's own key, limit and window,     *)
(* as a decision and not as an error; the strategy stays coordinated, so   *)
(* every Allow call, the one after a failed one included, is sent to the   *)
(* backend first.                                                          *)
(***************************************************************************)
\* caller c's Eval fails in this step and the call returns
FallbackReturns(c) ==
    /\ pc[c] = "eval"
    /\ pc'[c] = "idle"
    /\ Len(log') = Len(log) + 1
    /\ log'[Len(log')].path = "fallback"

LocalDecision(c) ==
    LET lim == IF limiters[req[c].key] = NoBucket
               THEN NewLimiter(req[c].limit, req[c].window, clock)
               ELSE limiters[req[c].key]
    IN  LimiterAllow(lim, clock).allowed

PerCallFallback ==
    /\ [](useRedis =>
            \A i \in DOMAIN log : log[i].op = "allow" => log[i].path # "local")
    /\ [][\A c \in Callers :
            FallbackReturns(c) =>
                /\ log'[Len(log')].op = "allow"
                /\ log'[Len(log')].key = req[c].key
                /\ log'[Len(log')].limit = req[c].limit
                /\ log'[Len(log')].window = req[c].window
                /\ log'[Len(log')].allowed = LocalDecision(c)
                /\ useRedis'
                /\ pc' = [pc EXCEPT ![c] = "idle"]]_vars

PerCallFallbackWitness ==
    \E i \in DOMAIN log :
        /\ i < Len(log)
        /\ log[i].op = "allow" /\ log[i].path = "fallback" /\ log[i].allowed
        /\ log[i + 1].op = "allow" /\ log[i + 1].path = "redis"

(***************************************************************************)
(* C13: when Reset(k) returns without error nothing is held for k any     *)
(* more, in the backend or in the in-memory limiter, under whichever       *)
(* strategy is active; what is held for the other keys is as before.       *)
(***************************************************************************)
\* a Reset of key k returns nil in this step
ResetReturns(k) ==
    /\ Len(log') = Len(log) + 1
    /\ log'[Len(log')].op = "reset"
    /\ log'[Len(log')].key = k
    /\ log'[Len(log')].allowed

ResetClearsKey ==
    [][\A k \in Keys :
          ResetReturns(k) =>
              /\ zset'[k] = {}
              /\ limiters'[k] = NoBucket
              /\ \A o \in Keys \ {k} :
                    zset'[o] = zset[o] /\ limiters'[o] = limiters[o]]_vars

(***************************************************************************)
(* SpecPair: two subscriptions of the job's owner, both taking             *)
(* job.completed, so that one update starts two deliveries.                *)
(***************************************************************************)
InitPair ==
    /\ InitLimiter({"empty"}, {1}, {MaxLimit})
    /\ InitGate
    /\ InitLock
    /\ InitWebhooks(WebhookRows({"u1"}, {{"job.completed"}}, {TRUE}),
                    WebhookRows({"u1"}, {{"job.completed"}}, {TRUE}))

NextPair ==
    \/ \E id \in JobIds, st \in {"running", "done"} :
          updateJobStatus(id, st, "none", MaxFanout)
    \/ DeliveryStep

SpecPair == InitPair /\ [][NextPair]_vars

(***************************************************************************)
(* C14: the step in which SendWebhookEvent is called and returns starts    *)
(* one goroutine per matching subscription, each at its beginning, and     *)
(* does nothing else: no record is written, no POST is sent, no running    *)
(* delivery is touched.  Whatever the deliveries are doing, the next       *)
(* status update can be processed.                                         *)
(***************************************************************************)
DispatchReturns == Len(dispatches') = Len(dispatches) + 1

\* the subscriptions the call recorded as `disp` should reach
MatchedBy(disp) ==
    {w \in WebhookIds : /\ disp.table[w].owner = disp.owner
                        /\ disp.table[w].active
                        /\ ~disp.table[w].deleted
                        /\ disp.event \in disp.table[w].events}

StartedNow == (DOMAIN tasks') \ (DOMAIN tasks)

FireAndContinue ==
    /\ [](nUpdates < MaxUpdates =>
            ENABLED updateJobStatus("j1", "running", "none", MaxFanout))
    /\ [][DispatchReturns =>
            /\ events' = events
            /\ \A t \in DOMAIN tasks : tasks'[t] = tasks[t]
            /\ {tasks'[t].wid : t \in StartedNow}
                  = MatchedBy(dispatches'[Len(dispatches')])
            /\ Cardinality(StartedNow)
                  = Cardinality(MatchedBy(dispatches'[Len(dispatches')]))
            /\ \A t \in StartedNow :
                  /\ tasks'[t].dispatch = Len(dispatches')
                  /\ tasks'[t].pc = "create"
                  /\ tasks'[t].posts = <<>>]_vars

FireAndContinueWitness ==
    /\ Len(dispatches) = 1
    /\ Len(tasks) = 2
    /\ jobs["j1"].status = "running"
    /\ tasks[1].pc = "sleep"
    /\ tasks[2].pc = "wait"

(***************************************************************************)
(* SpecPairLive: SpecPair with every goroutine scheduled.                  *)
(***************************************************************************)
FairPair ==
    \A t \in 1..MaxFanout : WF_vars(t \in DOMAIN tasks /\ TaskStep(t))

SpecPairLive == SpecPair /\ FairPair

(***************************************************************************)
(* C15: deliveries are independent.  A delivery that has not ended can     *)
(* take its next step whatever the other deliveries are doing; a step of   *)
(* one delivery changes neither another delivery nor its record; and a     *)
(* delivery whose record was inserted and whose endpoint never answers     *)
(* with a failure ends with delivered = true, whatever happens to the      *)
(* others.                                                                 *)
(***************************************************************************)
\* delivery t met a failure of its own: its insert or one of its attempts
FailedItself(t) ==
    \/ tasks[t].pc = "done" /\ tasks[t].rid = 0
    \/ \E i \in DOMAIN tasks[t].posts :
          tasks[t].posts[i].reply >= 0 /\ ~Is2xx(tasks[t].posts[i].reply)

Delivered(t) == tasks[t].rid # 0 /\ events[tasks[t].rid].delivered

\* the step is one of delivery t
StepOf(t) == t \in DOMAIN tasks /\ tasks'[t] # tasks[t]

InitSign ==
    /\ InitLimiter({"empty"}, {1}, {MaxLimit})
    /\ InitGate
    /\ InitLock
    /\ InitWebhooks({WithSecret(WebhookRow("u1", {"job.completed"}, TRUE), "s1")},
                    {WebhookRow("u1", {"job.failed"}, TRUE)})

SpecSign == InitSign /\ [][NextRetryLoop]_vars

(***************************************************************************)
(* C16: every POST carries as its body the serialized payload of its       *)
(* event; it has a signature header exactly when the subscription has a    *)
(* non-empty secret, and the header is then "sha256=" followed by the hex  *)
(* HMAC-SHA256 of the body keyed by that secret.  Under one secret, two    *)
(* different payloads never get the same signature.                        *)
(***************************************************************************)
\* the subscription delivery t works for, as its dispatch read it
RowOf(t) == dispatches[tasks[t].dispatch].table[tasks[t].wid]

\* the bytes of the payload of delivery t's event
BytesOf(t) ==
    <<"{event:", dispatches[tasks[t].dispatch].event,
      ",job:", dispatches[tasks[t].dispatch].job, "}">>

AllPayloadBytes ==
    {Marshal(JobWebhookPayload(e, j)) : e \in EventTypes, j \in JobIds}

SignedExactly ==
    /\ \A t \in DOMAIN tasks :
          \A i \in DOMAIN tasks[t].posts :
              LET post == tasks[t].posts[i]
              IN  /\ post.body = BytesOf(t)
                  /\ (post.signature # <<>>) <=> (RowOf(t).secret # "")
                  /\ RowOf(t).secret # "" =>
                        post.signature =
                            <<"sha256=",
                              <<"hex", <<"hmac-sha256", RowOf(t).secret, post.body>>>>>>
    /\ \A k \in Secrets \ {""} :
          \A p1, p2 \in AllPayloadBytes :
              p1 # p2 => SignatureHeader(p1, k) # SignatureHeader(p2, k)

SignedExactlyWitness ==
    \E t \in DOMAIN tasks :
        /\ RowOf(t).secret = "s1"
        /\ Len(tasks[t].posts) = 2
        /\ tasks[t].posts[2].signature # <<>>

(***************************************************************************)
(* GenerateRateLimitKey.  A string is the sequence of its characters.      *)
(***************************************************************************)
MaxStr == 1
MaxKeyed == 2

Chars == {"a", ":"}

Strs == UNION {[1..n -> Chars] : n \in 0..MaxStr}

Scopes == {<<"u">>, <<"g">>}

\* fmt.Sprintf("%s:%s:%s", userType, identifier, endpoint)
Sprintf3(userType, identifier, endpoint) ==
    userType \o <<":">> \o identifier \o <<":">> \o endpoint

\* hex.EncodeToString(sha256 of the bytes)[:16]: a digest that differs
\* whenever the bytes differ
Sha256Hex16(bytes) == <<"sha256[:16]", bytes>>

GenerateRateLimitKey(userType, identifier, endpoint) ==
    <<"rate_limit:", userType, ":",
      Sha256Hex16(Sprintf3(userType, identifier, endpoint))>>

\* one call of GenerateRateLimitKey
GenerateKey(userType, identifier, endpoint) ==
    /\ Cardinality(keyed) < MaxKeyed
    /\ keyed' = keyed \cup
          {[scope |-> userType, identifier |-> identifier, endpoint |-> endpoint,
            key |-> GenerateRateLimitKey(userType, identifier, endpoint)]}
    /\ UNCHANGED <<served, ctx, published>>
    /\ UNCHANGED <<limiterVars, webhookVars, lockVars>>

InitKeys ==
    /\ InitLimiter({"empty"}, {1}, {MaxLimit})
    /\ InitGate
    /\ InitLock
    /\ InitWebhooks(WebhookRows({"u1"}, {{"job.completed"}}, {TRUE}),
                    WebhookRows({"u1"}, {{"job.completed"}}, {TRUE}))

NextKeys ==
    \E u \in Scopes, i \in Strs, e \in Strs : GenerateKey(u, i, e)

SpecKeys == InitKeys /\ [][NextKeys]_vars

(***************************************************************************)
(* C17: calls with the same scope, identifier and endpoint get the same    *)
(* key, and two calls whose endpoints differ never get the same key.       *)
(***************************************************************************)
KeysNeverCollide ==
    \A x, y \in keyed :
        /\ (/\ x.scope = y.scope
            /\ x.identifier = y.identifier
            /\ x.endpoint = y.endpoint) => x.key = y.key
        /\ x.endpoint # y.endpoint => x.key # y.key

(***************************************************************************)
(* SpecBus: status updates of every kind, storage answering.               *)
(***************************************************************************)
NextBus ==
    \/ \E id \in JobIds, st \in BusStatuses, db \in StorageFailures :
          updateJobStatus(id, st, db, MaxTasks)
    \/ DeliveryStep

SpecBus == InitRetry /\ [][NextBus]_vars

(***************************************************************************)
(* C18: an update whose status is not received, running, done or failed    *)
(* returns an error; the step leaves the jobs table as it was and starts   *)
(* no delivery.                                                            *)
(***************************************************************************)
KnownStatuses == {"received", "running", "done", "failed"}

UnknownStatusRejected ==
    /\ [](\A st \in BusStatuses \ KnownStatuses, db \in StorageFailures :
            updateJobStatusReturns(st, db) # "nil")
    /\ [][\A id \in JobIds, st \in BusStatuses \ KnownStatuses :
            updateJobStatus(id, st, "none", MaxTasks) =>
                /\ jobs' = jobs
                /\ tasks' = tasks
                /\ dispatches' = dispatches
                /\ events' = events]_vars

UnknownStatusRejectedWitness ==
    /\ nUpdates = 1
    /\ jobs["j1"].status = "received"
    /\ dispatches = <<>>


(***************************************************************************)
(* The admission gates: gin middleware in front of the business handlers.  *)
(* gin runs the handlers of a route in order; c.Abort() keeps the pending  *)
(* ones from running, and a handler that returns (after c.Next() or        *)
(* without it) lets the next one run.  Every middleware here calls         *)
(* c.Next() as its last statement or does nothing after it.                *)
(***************************************************************************)
MaxRequests == 3
MaxGateClock == 1

RouteWebhooks == <<"/api/v1/webhooks">>
RouteJobs == <<"/api/v1/jobs">>

Endpoints == {RouteWebhooks, RouteJobs}

\* RegisterRoutes: the handlers of each route, in the order they are mounted
Handlers(route) ==
    IF route = RouteWebhooks
    THEN <<"GlobalRateLimit", "RequireClerkAuth", "UserRateLimit", "GetWebhooks">>
    ELSE <<"GlobalRateLimit", "FlexibleAuth", "CreateJob">>

\* what a request authenticates with: a Clerk session, an API key, nothing
Creds == {[kind |-> "clerk", id |-> <<"u1">>],
          [kind |-> "api_key", id |-> <<"ign_1">>],
          NoCred}

\* strconv.Itoa, strconv.FormatInt(_, 10)
Itoa(n) == ToString(n)

FormatInt(n) == ToString(n)

\* time.Duration.String(), the window counted in ticks
DurationString(w) == ToString(w) \o "tick"

\* ValidateAPIKey: the row of the key presented, its RateLimit column given
APIKeyData(rateLimit) ==
    [ID |-> 7, ClerkUserID |-> <<"u1">>, RateLimit |-> rateLimit]

GetUserRateLimitKey(clerkUserID, endpoint) ==
    GenerateRateLimitKey(<<"user">>, clerkUserID, endpoint)

GetAPIKeyRateLimitKey(apiKeyID, endpoint) ==
    GenerateRateLimitKey(<<"api">>, apiKeyID, endpoint)

GetGlobalRateLimitKey(endpoint) ==
    GenerateRateLimitKey(<<"global">>, <<"all">>, endpoint)

GateKeys ==
    {GetGlobalRateLimitKey(e) : e \in Endpoints}
        \cup {GetUserRateLimitKey(<<"u1">>, e) : e \in Endpoints}
        \cup {GetAPIKeyRateLimitKey(<<Itoa(APIKeyData(0).ID)>>, e) : e \in Endpoints}

\* StandardGlobalRateLimit admits more per window than StandardUserRateLimit
GlobalLimit == cfgLimit + 1

GlobalConfig(limit, window) ==
    [Limit |-> limit, Window |-> window, SkipSuccessful |-> FALSE,
     SkipOnError |-> TRUE, HeaderPrefix |-> "X-RateLimit-Global"]

UserConfig(limit, window) ==
    [Limit |-> limit, Window |-> window, SkipSuccessful |-> FALSE,
     SkipOnError |-> TRUE, HeaderPrefix |-> "X-RateLimit-User"]

\* c.Header(name, value): sets the header, replacing an earlier value
Header(c, name, value) ==
    [c EXCEPT !.headers = {h \in @ : h.name # name}
                              \cup {[name |-> name, value |-> value]}]

\* c.JSON(code, body): the status line is written once, the body is appended
JSON(c, code, body) ==
    [c EXCEPT !.status = IF @ = 0 THEN code ELSE @,
              !.body = Append(@, body)]

\* c.Abort()
Abort(c) == [c EXCEPT !.aborted = TRUE]

\* the handler returned: gin moves on to the next one
Step(c) == [c EXCEPT !.index = @ + 1]

addRateLimitHeaders(c, config, limit, allowed, now) ==
    LET p  == config.HeaderPrefix
        h1 == Header(c, <<p, "-Limit">>, Itoa(limit))
        h2 == Header(h1, <<p, "-Window">>, DurationString(config.Window))
        h3 == Header(h2, <<p, "-Remaining">>,
                     IF allowed THEN "available" ELSE "0")
    IN  Header(h3, <<p, "-Reset">>, FormatInt(now + config.Window))

getRateLimitKeyAndLimit(c, config) ==
    IF c.authType = "api_key"
    THEN IF c.apiKey # NoAPIKey
         THEN [key   |-> GetAPIKeyRateLimitKey(<<Itoa(c.apiKey.ID)>>, c.route),
               limit |-> c.apiKey.RateLimit]
         ELSE [key |-> <<>>, limit |-> config.Limit]
    ELSE IF c.authType = "clerk"
    THEN IF c.userID # <<>>
         THEN [key   |-> GetUserRateLimitKey(c.userID, c.route),
               limit |-> config.Limit]
         ELSE [key |-> <<>>, limit |-> config.Limit]
    ELSE [key |-> GetGlobalRateLimitKey(c.route), limit |-> config.Limit]

\* RateLimit(config), from the result of Allow on: the context it leaves
RateLimit(c, config, limit, d, now) ==
    IF d.err
    THEN IF ~config.SkipOnError
         THEN Abort(JSON(c, 500, "Rate limiter error"))
         ELSE c
    ELSE LET h == addRateLimitHeaders(c, config, limit, d.allowed, now)
         IN  IF ~d.allowed
             THEN Abort(JSON(h, 429, "Rate limit exceeded"))
             ELSE h

GlobalRateLimitWithoutAbort(c, limit, window, d, now) ==
    LET h == addRateLimitHeaders(c, GlobalConfig(limit, window), limit,
                                 d.allowed, now)
    IN  IF ~d.allowed
        THEN JSON(h, 429, "Global rate limit exceeded")
        ELSE h

\* GlobalRateLimit(limit, window), from the result of Allow on
GlobalRateLimit(c, limit, window, d, now) ==
    IF d.err
    THEN c
    ELSE LET h == addRateLimitHeaders(c, GlobalConfig(limit, window), limit,
                                      d.allowed, now)
         IN  IF ~d.allowed
             THEN Abort(JSON(h, 429, "Global rate limit exceeded"))
             ELSE h

\* APIKeyAuth for a valid key, from the result of Allow on
APIKeyAuth(c, apiKeyData, d) ==
    IF d.err
    THEN Abort(JSON(c, 500, "Rate limiter error"))
    ELSE IF ~d.allowed
    THEN Abort(JSON(c, 429, "Rate limit exceeded"))
    ELSE [c EXCEPT !.apiKey = apiKeyData,
                   !.userID = apiKeyData.ClerkUserID,
                   !.authType = "api_key"]

\* RateLimiterService.Allow as the middleware sees it: one call, its result
\* and the state it leaves.  The error returned is always nil.
\* Eval answered; Eval failed after the script ran; Eval failed before it ran
Evals == {"ok", "lost", "down"}

AllowCallReturningErr(k, l, w, eval) ==
    LET r == [key |-> k, limit |-> l, window |-> w,
              now |-> clock, windowStart |-> clock - w]
        s == RunScript(k, r)
        i == InMemoryAllow(limiters, k, l, w, clock)
    IN  IF ~useRedis
        THEN [allowed |-> i.allowed, err |-> FALSE, limiters |-> i.limiters,
              zset |-> zset, expireAt |-> expireAt, path |-> "local"]
        ELSE IF eval = "ok"
        THEN [allowed |-> s.allowed, err |-> FALSE, limiters |-> limiters,
              zset |-> s.zset, expireAt |-> s.expireAt, path |-> "redis"]
        ELSE [allowed |-> FALSE, err |-> TRUE, limiters |-> limiters,
              zset |-> IF eval = "lost" THEN s.zset ELSE zset,
              expireAt |-> IF eval = "lost" THEN s.expireAt ELSE expireAt,
              path |-> "fallback"]

\* RateLimiterService.Allow as the middleware calls it: the decision, the
\* error returned and the limiter's state afterwards
AllowCall(k, l, w, eval) ==
    LET r == [key |-> k, limit |-> l, window |-> w,
              now |-> clock, windowStart |-> clock - w]
        s == RunScript(k, r)
        m == Fallback(limiters, r, clock)
        i == InMemoryAllow(limiters, k, l, w, clock)
    IN  IF ~useRedis
        THEN [allowed |-> i.allowed, err |-> FALSE, limiters |-> i.limiters,
              zset |-> zset, expireAt |-> expireAt, path |-> "local"]
        ELSE IF eval = "ok"
        THEN [allowed |-> s.allowed, err |-> FALSE, limiters |-> limiters,
              zset |-> s.zset, expireAt |-> s.expireAt, path |-> "redis"]
        ELSE [allowed |-> m.allowed, err |-> FALSE, limiters |-> m.limiters,
              zset |-> IF eval = "lost" THEN s.zset ELSE zset,
              expireAt |-> IF eval = "lost" THEN s.expireAt ELSE expireAt,
              path |-> "fallback"]

Evaluate(k, l, w, d) ==
    /\ useRedis => \A i \in DOMAIN log : LaterCall(log[i])
    /\ limiters' = d.limiters
    /\ zset' = d.zset
    /\ expireAt' = d.expireAt
    /\ log' = Append(log, AllowEntry(k, l, w, clock, d.allowed, d.path))
    /\ UNCHANGED <<redisURL, useRedis, clock, cfgLimit, cfgWindow, pc, req>>

\* what the request went through: the Allow calls and the business handler
Traced(c, gate, l, w, d) ==
    [c EXCEPT !.trace = Append(@, [ev |-> "Allow", name |-> gate,
                                   limit |-> l, window |-> w, at |-> clock,
                                   allowed |-> d.allowed])]

Ran(c, h) ==
    [c EXCEPT !.trace = Append(@, [ev |-> "handler", name |-> h,
                                   limit |-> 0, window |-> 0, at |-> clock,
                                   allowed |-> TRUE])]

Pending(h) ==
    /\ ctx.index \in 1..Len(ctx.handlers)
    /\ ~ctx.aborted
    /\ ctx.handlers[ctx.index] = h

\* a request arrives: gin builds its context and the route's handlers
Arrive(route, cred) ==
    /\ ctx = NoCtx
    /\ Len(served) < MaxRequests
    /\ ctx' = [NoCtx EXCEPT !.route = route, !.cred = cred,
                            !.handlers = Handlers(route), !.index = 1]
    /\ UNCHANGED <<keyed, served, published>>
    /\ UNCHANGED <<limiterVars, webhookVars, lockVars>>

GlobalGate(eval) ==
    /\ Pending("GlobalRateLimit")
    /\ LET k == GetGlobalRateLimitKey(ctx.route)
           d == AllowCall(k, GlobalLimit, cfgWindow, eval)
       IN  /\ Evaluate(k, GlobalLimit, cfgWindow, d)
           /\ ctx' = Step(Traced(GlobalRateLimit(ctx, GlobalLimit, cfgWindow,
                                                 d, clock),
                                 "GlobalRateLimit", GlobalLimit, cfgWindow, d))
    /\ UNCHANGED <<keyed, served, published>>
    /\ UNCHANGED <<webhookVars, lockVars>>

UserGate(eval) ==
    /\ Pending("UserRateLimit")
    /\ LET config == UserConfig(cfgLimit, cfgWindow)
           kl == getRateLimitKeyAndLimit(ctx, config)
           k  == IF kl.key = <<>> THEN GetGlobalRateLimitKey(ctx.route)
                 ELSE kl.key
           l  == IF kl.key = <<>> THEN config.Limit ELSE kl.limit
           d  == AllowCall(k, l, config.Window, eval)
       IN  /\ Evaluate(k, l, config.Window, d)
           /\ ctx' = Step(Traced(RateLimit(ctx, config, l, d, clock),
                                 "UserRateLimit", l, config.Window, d))
    /\ UNCHANGED <<keyed, served, published>>
    /\ UNCHANGED <<webhookVars, lockVars>>

\* RequireClerkAuth, and FlexibleAuth for a request with a session token
ClerkAuth ==
    /\ \/ Pending("RequireClerkAuth")
       \/ Pending("FlexibleAuth") /\ ctx.cred.kind = "clerk"
    /\ ctx' = Step(IF ctx.cred.kind = "clerk"
                   THEN [ctx EXCEPT !.userID = ctx.cred.id,
                                    !.authType = "clerk"]
                   ELSE Abort(JSON(ctx, 401, "Unauthorized")))
    /\ UNCHANGED <<keyed, served, published>>
    /\ UNCHANGED <<limiterVars, webhookVars, lockVars>>

\* FlexibleAuth for a request with an API key: APIKeyAuth finds the key
\* valid and checks its rate limit over time.Minute
APIKeyGate(eval) ==
    /\ Pending("FlexibleAuth")
    /\ ctx.cred.kind = "api_key"
    /\ LET apiKeyData == APIKeyData(cfgLimit)
           k == GetAPIKeyRateLimitKey(<<Itoa(apiKeyData.ID)>>, ctx.route)
           l == apiKeyData.RateLimit
           d == AllowCall(k, l, cfgWindow, eval)
       IN  /\ Evaluate(k, l, cfgWindow, d)
           /\ ctx' = Step(Traced(APIKeyAuth(ctx, apiKeyData, d),
                                 "APIKeyAuth", l, cfgWindow, d))
    /\ UNCHANGED <<keyed, served, published>>
    /\ UNCHANGED <<webhookVars, lockVars>>

\* FlexibleAuth without credentials
Unauthenticated ==
    /\ Pending("FlexibleAuth")
    /\ ctx.cred.kind = "none"
    /\ ctx' = Step(Abort(JSON(ctx, 401, "Authentication required")))
    /\ UNCHANGED <<keyed, served, published>>
    /\ UNCHANGED <<limiterVars, webhookVars, lockVars>>

\* JobService.CreateJob succeeded: the job is stored and published
Publish(c) == Append(published, [request |-> Len(served) + 1, user |-> c.userID])

\* the business handlers GetWebhooks and CreateJob.  `ok`: the body binds
\* and the service call succeeds
Business(ok) ==
    /\ \E h \in {"GetWebhooks", "CreateJob"} : Pending(h)
    /\ LET h == ctx.handlers[ctx.index]
           c == Ran(ctx, h)
       IN  IF c.userID = <<>>
           THEN /\ ctx' = Step(JSON(c, 401, "User not authenticated"))
                /\ UNCHANGED published
           ELSE IF h = "GetWebhooks"
           THEN /\ ctx' = Step(JSON(c, IF ok THEN 200 ELSE 500, "data"))
                /\ UNCHANGED published
           ELSE IF ~ok
           THEN /\ ctx' = Step(JSON(c, 400, "error"))
                /\ UNCHANGED published
           ELSE /\ ctx' = Step(JSON(c, 201, "data"))
                /\ published' = Publish(c)
    /\ UNCHANGED <<keyed, served>>
    /\ UNCHANGED <<limiterVars, webhookVars, lockVars>>

\* the chain is over: the response is complete
Respond ==
    /\ ctx.index > 0
    /\ ctx.aborted \/ ctx.index > Len(ctx.handlers)
    /\ served' = Append(served, ctx)
    /\ ctx' = NoCtx
    /\ UNCHANGED <<keyed, published>>
    /\ UNCHANGED <<limiterVars, webhookVars, lockVars>>

InitGates ==
    /\ redisURL \in {"empty", "reachable"}
    /\ useRedis = NewRateLimiterService(redisURL).useRedis
    /\ limiters = [k \in GateKeys |-> NoBucket]
    /\ clock = 0
    /\ zset = [k \in GateKeys |-> {}]
    /\ expireAt = [k \in GateKeys |-> NoExpiry]
    /\ cfgLimit = 1
    /\ cfgWindow = MaxLimit
    /\ pc = [c \in Callers |-> "idle"]
    /\ req = [c \in Callers |-> NoReq]
    /\ log = <<>>
    /\ InitGate
    /\ InitLock
    /\ InitWebhooks(WebhookRows({"u1"}, {{"job.completed"}}, {TRUE}),
                    WebhookRows({"u1"}, {{"job.completed"}}, {TRUE}))

NextGates ==
    \/ Tick(MaxGateClock)
    \/ \E route \in Endpoints, cred \in Creds : Arrive(route, cred)
    \/ \E eval \in Evals : GlobalGate(eval)
    \/ \E eval \in Evals : UserGate(eval)
    \/ ClerkAuth
    \/ \E eval \in Evals : APIKeyGate(eval)
    \/ Unauthenticated
    \/ \E ok \in BOOLEAN : Business(ok)
    \/ Respond

SpecGates == InitGates /\ [][NextGates]_vars

(***************************************************************************)
(* C19: every request denied by an admission gate (global, per-user or     *)
(* per-API-key) is answered with HTTP 429, and the response carries        *)
(* headers exposing the limit, the window and a reset timestamp equal to   *)
(* now + window.                                                           *)
(***************************************************************************)
Denials(c) ==
    {j \in DOMAIN c.trace : c.trace[j].ev = "Allow" /\ ~c.trace[j].allowed}

HeaderPrefixes == {"X-RateLimit", "X-RateLimit-Global", "X-RateLimit-User"}

Exposes(c, e) ==
    \E p \in HeaderPrefixes :
        {[name |-> <<p, "-Limit">>,  value |-> Itoa(e.limit)],
         [name |-> <<p, "-Window">>, value |-> DurationString(e.window)],
         [name |-> <<p, "-Reset">>,  value |-> FormatInt(e.at + e.window)]}
            \subseteq c.headers

DenialIs429WithHeaders ==
    \A i \in DOMAIN served :
        \A j \in Denials(served[i]) :
            /\ served[i].status = 429
            /\ Exposes(served[i], served[i].trace[j])

(***************************************************************************)
(* C20: on every gated route each gate's Allow is evaluated before the     *)
(* business handler runs, and a request that Allow denied is aborted: its  *)
(* business handler never runs and no job is created or published for it.  *)
(***************************************************************************)
IsGate(c, h) ==
    \/ h \in {"GlobalRateLimit", "UserRateLimit"}
    \/ h = "FlexibleAuth" /\ c.cred.kind = "api_key"

GatesOf(c) == {p \in DOMAIN c.handlers : IsGate(c, c.handlers[p])}

HandlerRuns(c) == {j \in DOMAIN c.trace : c.trace[j].ev = "handler"}

AllowsBefore(c, j) == {i \in 1..(j - 1) : c.trace[i].ev = "Allow"}

\* request number n went through c
GatedFirst(c, n) ==
    /\ \A j \in HandlerRuns(c) :
          /\ Cardinality(AllowsBefore(c, j)) = Cardinality(GatesOf(c))
          /\ \A i \in AllowsBefore(c, j) : c.trace[i].allowed
    /\ Denials(c) # {} =>
          /\ c.aborted
          /\ HandlerRuns(c) = {}
          /\ \A x \in DOMAIN published : published[x].request # n

DeniedNeverHandled ==
    /\ [](/\ \A n \in DOMAIN served : GatedFirst(served[n], n)
          /\ GatedFirst(ctx, Len(served) + 1))
    /\ [][published' # published =>
              /\ Denials(ctx) = {}
              /\ Cardinality(DOMAIN ctx.trace) = Cardinality(GatesOf(ctx))]_vars

DeniedNeverHandledWitness ==
    /\ published # <<>>
    /\ \E n \in DOMAIN served :
          /\ served[n].route = RouteJobs
          /\ Denials(served[n]) # {}
          /\ served[n].status = 429


(***************************************************************************)
(* C21: a delivery never sends more than 3 POSTs for its record; after     *)
(* the third failed attempt nextRetryAt is set, once, to one hour later,   *)
(* and from then on the record's schedule never changes and no POST is     *)
(* sent for it.                                                            *)
(***************************************************************************)
Scheduled(r) == events[r].nextRetryAt # NoTime

AllFailed(posts) ==
    \A i \in DOMAIN posts : posts[i].reply = 0 \/ IsNon2xx(posts[i].reply)

AtMostThreePosts ==
    /\ [](\A t \in DOMAIN tasks : Len(tasks[t].posts) <= 3)
    /\ [][\A t \in DOMAIN tasks :
            tasks[t].rid # 0 =>
                /\ Scheduled(tasks[t].rid) =>
                      /\ events'[tasks[t].rid] = events[tasks[t].rid]
                      /\ tasks'[t].posts = tasks[t].posts
                /\ events'[tasks[t].rid].nextRetryAt
                        # events[tasks[t].rid].nextRetryAt =>
                      /\ Len(tasks'[t].posts) = 3
                      /\ AllFailed(tasks'[t].posts)
                      /\ events'[tasks[t].rid].nextRetryAt
                            = tasks[t].posts[3].at + 3600]_vars

AtMostThreePostsWitness ==
    \E t \in DOMAIN tasks :
        /\ tasks[t].pc = "done"
        /\ Len(tasks[t].posts) = 3
        /\ tasks[t].posts[2].reply = 0
        /\ Scheduled(tasks[t].rid)


(***************************************************************************)
(* C23: after failed attempt n (transport error or non-2xx status alike)   *)
(* with attempts remaining the loop sleeps n x 2 s before attempt n + 1:   *)
(* 2 s after the first, 4 s after the second.  After the third attempt or  *)
(* a 2xx status the loop ends without sleeping.                            *)
(***************************************************************************)
ReplyTaken(t) == tasks[t].pc = "wait" /\ tasks'[t].pc # "wait"

LinearBackoff ==
    /\ [](\A t \in DOMAIN tasks :
            \A n \in DOMAIN tasks[t].posts :
                (n + 1) \in DOMAIN tasks[t].posts =>
                    /\ ~Is2xx(tasks[t].posts[n].reply)
                    /\ tasks[t].posts[n + 1].at
                          = tasks[t].posts[n].at + n * 2)
    /\ [][\A t \in DOMAIN tasks :
            ReplyTaken(t) =>
                LET n     == Len(tasks[t].posts)
                    reply == tasks'[t].posts[n].reply
                IN  /\ tasks'[t].now = tasks[t].now
                    /\ tasks'[t].pc = IF Is2xx(reply) \/ n = 3
                                      THEN "done" ELSE "sleep"]_vars
    /\ [][\A t \in DOMAIN tasks :
            tasks[t].pc = "sleep" /\ tasks'[t].pc # "sleep" =>
                /\ tasks'[t].pc = "send"
                /\ tasks'[t].now = tasks[t].now + Len(tasks[t].posts) * 2]_vars

LinearBackoffWitness ==
    \E t \in DOMAIN tasks :
        /\ Len(tasks[t].posts) = 3
        /\ tasks[t].posts[1].reply = 0
        /\ tasks[t].posts[2].reply = 500
        /\ tasks[t].posts[2].at = 2
        /\ tasks[t].posts[3].at = 6
        /\ tasks[t].pc = "done"


(***************************************************************************)
(* C24: the attempts of one delivery are strictly sequential.  Attempt     *)
(* n + 1 starts only after attempt n was answered and its outcome saved    *)
(* to the record, at most one attempt of a record is in flight, and the    *)
(* record's attempt count goes 1, 2, 3 in order and never decreases.       *)
(***************************************************************************)
InFlight(t) == {n \in DOMAIN tasks[t].posts : tasks[t].posts[n].reply = -1}

ScriptAnswers(c) ==
    /\ pc[c] = "eval"
    /\ pc'[c] = "idle"
    /\ log'[Len(log')].path = "redis"

InWindow(c) == {t \in Live(req[c].key) : t >= req[c].windowStart}

EvictsStrictlyOlder ==
    [][\A c \in Callers :
          ScriptAnswers(c) =>
              /\ InWindow(c) \subseteq zset'[req[c].key]
              /\ log'[Len(log')].allowed
                    = (Cardinality(InWindow(c)) < req[c].limit)]_vars

\* C26: updateJobStatus calls the dispatcher exactly for the updates that put
\* the job in a terminal state: an update 'done' that is written dispatches
\* job.completed and an update 'failed' that is written dispatches job.failed,
\* each once, for the job and to the job's owner; an update 'received' or
\* 'running', an unknown status and an update that is not written dispatch
\* nothing and start no delivery.
Written(st, db) == db \notin {"FindOne", "Update"} /\ JobStatusOf(st) # ""

TerminalEvent(st) ==
    CASE st = "done"   -> "job.completed"
      [] st = "failed" -> "job.failed"
      [] OTHER         -> "none"

DispatchOnTerminalOnly ==
    [][\A id \in JobIds, st \in BusStatuses, db \in StorageFailures :
          updateJobStatus(id, st, db, MaxTasks) =>
             IF Written(st, db) /\ st \in {"done", "failed"}
             THEN /\ jobs'[id].status \in {"completed", "failed"}
                  /\ Len(dispatches') = Len(dispatches) + 1
                  /\ SubSeq(dispatches', 1, Len(dispatches)) = dispatches
                  /\ dispatches'[Len(dispatches')].job = id
                  /\ dispatches'[Len(dispatches')].owner = jobs[id].owner
                  /\ dispatches'[Len(dispatches')].event = TerminalEvent(st)
                  /\ \A t \in DOMAIN tasks' \ DOMAIN tasks :
                        tasks'[t].ev.eventType = TerminalEvent(st)
             ELSE /\ dispatches' = dispatches
                  /\ tasks' = tasks
                  /\ jobs'[id].status \in {"completed", "failed"}
                        => jobs'[id] = jobs[id]]_vars

DispatchOnTerminalOnlyWitness ==
    /\ nUpdates = 2
    /\ jobs["j1"].status = "failed"
    /\ Len(dispatches) = 1
    /\ dispatches[1].event = "job.failed"
    /\ dispatches[1].owner = "u1"
    /\ Len(tasks) = 1


(***************************************************************************)
(* SpecSweep: the in-memory limiter alone, one caller, two keys in use.    *)
(***************************************************************************)
MaxSweepOps == 4

InitSweep ==
    /\ InitLimiter({"empty"}, Limits, Windows)
    /\ InitGate
    /\ InitLock
    /\ InitWebhooks(WebhookRows({"u1"}, {{"job.completed"}}, {TRUE}),
                    WebhookRows({"u1"}, {{"job.completed"}}, {TRUE}))

NextSweep ==
    \/ Tick(MaxClock)
    \/ \E k \in Keys : Allow(1, k, cfgLimit, cfgWindow, MaxSweepOps)
    \/ \E k \in Keys : Reset(1, k, TRUE, MaxSweepOps)
    \/ Cleanup(MaxSweepOps)

SpecSweep == InitSweep /\ [][NextSweep]_vars

\* the calls log[i], log[i+1], ... that the in-memory limiter answered are
\* answered as a limiter whose buckets are `lims` before log[i] answers them
RECURSIVE Replayed(_, _)
Replayed(i, lims) ==
    IF i > Len(log) THEN TRUE
    ELSE LET e == log[i]
         IN  CASE e.op = "allow" /\ e.path # "redis" ->
                    LET r == InMemoryAllow(lims, e.key, e.limit, e.window, e.at)
                    IN  r.allowed = e.allowed /\ Replayed(i + 1, r.limiters)
               [] e.op = "reset" /\ e.path = "local" ->
                    Replayed(i + 1, InMemoryReset(lims, e.key))
               [] e.op = "cleanup" ->
                    Replayed(i + 1, [k \in Keys |-> NoBucket])
               [] OTHER -> Replayed(i + 1, lims)

Sweeps == {i \in DOMAIN log : log[i].op = "cleanup"}

\* the first call the in-memory limiter answers for key k after log[i]
FirstAfter(i, k) ==
    {j \in AllowsOf(k) :
        /\ j > i /\ log[j].path # "redis"
        /\ \A h \in AllowsOf(k) : (h > i /\ h < j) => log[h].path = "redis"}

\* C28: Cleanup clears the buckets of all keys in one step; the first Allow
\* (limit >= 1) on any key after a sweep is admitted and leaves the key a
\* new bucket of capacity `limit` with that one token taken; and every
\* decision after a sweep is the decision of a limiter that starts empty at
\* the sweep, whatever the buckets held before it.
SweepForgetsAll ==
    /\ [](\A i \in Sweeps :
            /\ Replayed(i + 1, [k \in Keys |-> NoBucket])
            /\ \A k \in Keys : \A j \in FirstAfter(i, k) : log[j].allowed)
    /\ [][\A k \in Keys :
            /\ Len(log') = Len(log) + 1 /\ log'[Len(log')].op = "cleanup"
                  => limiters'[k] = NoBucket
            /\ (/\ Len(log') = Len(log) + 1
                /\ log'[Len(log')].op = "allow"
                /\ log'[Len(log')].key = k
                /\ log'[Len(log')].path # "redis"
                /\ limiters[k] = NoBucket)
                  => /\ limiters'[k].burst = log'[Len(log')].limit
                     /\ limiters'[k].tokens
                           = (limiters'[k].burst - 1) * limiters'[k].interval
                     /\ limiters'[k].last = clock]_vars

\* both keys had spent buckets, the sweep cleared both, and k1 was admitted
\* again at the instant of the sweep
SweepForgetsAllWitness ==
    /\ Len(log) = 4
    /\ cfgLimit = 1
    /\ log[1].key = "k1" /\ log[1].allowed
    /\ log[2].key = "k2" /\ log[2].allowed
    /\ log[3].op = "cleanup"
    /\ log[4].op = "allow" /\ log[4].key = "k1" /\ log[4].allowed
    /\ log[4].at = log[1].at
    /\ limiters["k2"] = NoBucket


(***************************************************************************)
(* C29.  SpecSweep never calls the backend, so its clock may be read in    *)
(* any unit; read in the unit of time.Duration, Every is the integer       *)
(* division window / time.Duration(limit) of InMemoryRateLimiter.Allow.    *)
(***************************************************************************)
\* no Reset of key k and no Cleanup was logged between log[i] and log[j]
Undisturbed(k, i, j) ==
    \A h \in i..j :
        /\ log[h].op # "cleanup"
        /\ ~(log[h].op = "reset" /\ log[h].key = k)

AdmittedBetween(k, i, j) ==
    {h \in AllowsOf(k) : h >= i /\ h <= j /\ log[h].allowed}

\* C29: in local mode, over any stretch of calls on one key with no Reset
\* and no Cleanup, the calls admitted within a time t are at most
\* limit + floor(t * limit / window); and a bucket never holds less than
\* nothing or more than `limit` tokens.
AdmittedWithinRefill ==
    /\ \A k \in Keys : \A i, j \in AllowsOf(k) :
          (i <= j /\ Undisturbed(k, i, j)) =>
             Cardinality(AdmittedBetween(k, i, j))
                <= log[j].limit
                   + ((log[j].at - log[i].at) * log[j].limit) \div log[j].window
    /\ \A k \in Keys : limiters[k] # NoBucket =>
          /\ limiters[k].tokens >= 0
          /\ limiters[k].tokens <= limiters[k].burst * limiters[k].interval


(***************************************************************************)
(* SpecThreads: the calls of the limiter step by step.  A caller in the    *)
(* in-memory limiter waits for the mutex ("lock"), then runs the body of   *)
(* Allow ("look", "create", "take"), Reset ("delete") or Cleanup ("clear") *)
(* and releases the mutex as it returns ("unlock").  A caller of the       *)
(* backend is suspended in Eval ("eval") or Del ("del") until the client   *)
(* returns.                                                                *)
(***************************************************************************)
Busy == {d \in Callers : pc[d] # "idle"}

\* the positions inside InMemoryRateLimiter's Lock() ... Unlock()
Critical == {"look", "create", "take", "delete", "clear", "unlock"}

MayStart(c) ==
    /\ pc[c] = "idle"
    /\ \A d \in Callers : d < c => pc[d] # "idle"
    /\ Len(log) + Cardinality(Busy) < MaxOps

\* the caller enters a method of the in-memory limiter and asks for the mutex
Enter(c, op, k, l, w, path) ==
    /\ pc' = [pc EXCEPT ![c] = "lock"]
    /\ frame' = [frame EXCEPT ![c] =
                   [NoFrame EXCEPT !.op = op, !.key = k, !.limit = l,
                                   !.window = w, !.path = path,
                                   !.first = (k \in Keys /\ limiters[k] = NoBucket)]]

TryLockUnguarded(m) == TRUE

\* i.mutex.Lock() returns only while no caller holds the mutex
TryLock(m) == m = NoHolder

UnlockForgotten(m) == m

\* defer i.mutex.Unlock()
Unlock(m) == NoHolder

\* RateLimiterService.Allow in local mode: r.inMemoryLimiter.Allow(...)
CallAllow(c, k, l, w) ==
    /\ ~useRedis
    /\ MayStart(c)
    /\ Enter(c, "allow", k, l, w, "local")
    /\ UNCHANGED <<redisURL, useRedis, clock, zset, expireAt, limiters,
                   cfgLimit, cfgWindow, req, log>>
    /\ UNCHANGED <<mutex, made>>
    /\ UNCHANGED <<webhookVars, gateVars>>

\* RateLimiterService.Allow in coordinated mode: allowRedis reads the time
\* and calls Eval
CallEval(c, k, l, w) ==
    /\ useRedis
    /\ MayStart(c)
    /\ Allow(c, k, l, w, MaxOps)

\* allowRedis, Eval returned an error (the script ran or not): the caller
\* goes on to r.inMemoryLimiter.Allow
EvalFails(c, ran) ==
    /\ pc[c] = "eval"
    /\ LET r == req[c]
           s == RunScript(r.key, r)
       IN  /\ zset' = IF ran THEN s.zset ELSE zset
           /\ expireAt' = IF ran THEN s.expireAt ELSE expireAt
           /\ Enter(c, "allow", r.key, r.limit, r.window, "fallback")
    /\ req' = [req EXCEPT ![c] = NoReq]
    /\ UNCHANGED <<redisURL, useRedis, clock, limiters, cfgLimit, cfgWindow, log>>
    /\ UNCHANGED <<mutex, made>>
    /\ UNCHANGED <<webhookVars, gateVars>>

\* RateLimiterService.Reset in local mode
CallReset(c, k) ==
    /\ ~useRedis
    /\ MayStart(c)
    /\ Enter(c, "reset", k, 0, 0, "local")
    /\ UNCHANGED <<redisURL, useRedis, clock, zset, expireAt, limiters,
                   cfgLimit, cfgWindow, req, log>>
    /\ UNCHANGED <<mutex, made>>
    /\ UNCHANGED <<webhookVars, gateVars>>

\* RateLimiterService.Reset in coordinated mode: r.redisClient.Del(ctx, key)
CallDel(c, k) ==
    /\ useRedis
    /\ MayStart(c)
    /\ pc' = [pc EXCEPT ![c] = "del"]
    /\ req' = [req EXCEPT ![c] = [NoReq EXCEPT !.key = k]]
    /\ UNCHANGED <<redisURL, useRedis, clock, zset, expireAt, limiters,
                   cfgLimit, cfgWindow, log>>
    /\ UNCHANGED <<webhookVars, gateVars, lockVars>>

\* Del returned, with or without an error
DelReturns(c, ok) ==
    /\ pc[c] = "del"
    /\ zset' = IF ok THEN [zset EXCEPT ![req[c].key] = {}] ELSE zset
    /\ expireAt' = IF ok THEN [expireAt EXCEPT ![req[c].key] = NoExpiry]
                   ELSE expireAt
    /\ log' = Append(log, ResetEntry(req[c].key, ok))
    /\ pc' = [pc EXCEPT ![c] = "idle"]
    /\ req' = [req EXCEPT ![c] = NoReq]
    /\ UNCHANGED <<redisURL, useRedis, clock, limiters, cfgLimit, cfgWindow>>
    /\ UNCHANGED <<webhookVars, gateVars, lockVars>>

\* InMemoryRateLimiter.Cleanup is called
CallCleanup(c) ==
    /\ MayStart(c)
    /\ \E k \in Keys : limiters[k] # NoBucket
    /\ Enter(c, "cleanup", "", 0, 0, "local")
    /\ UNCHANGED <<redisURL, useRedis, clock, zset, expireAt, limiters,
                   cfgLimit, cfgWindow, req, log>>
    /\ UNCHANGED <<mutex, made>>
    /\ UNCHANGED <<webhookVars, gateVars>>

\* i.mutex.Lock()
MutexLock(c) ==
    /\ pc[c] = "lock"
    /\ TryLock(mutex)
    /\ mutex' = c
    /\ pc' = [pc EXCEPT ![c] = CASE frame[c].op = "allow" -> "look"
                                 [] frame[c].op = "reset" -> "delete"
                                 [] OTHER                 -> "clear"]
    /\ UNCHANGED <<redisURL, useRedis, clock, zset, expireAt, limiters,
                   cfgLimit, cfgWindow, req, log>>
    /\ UNCHANGED <<frame, made>>
    /\ UNCHANGED <<webhookVars, gateVars>>

\* limiter, exists := i.limiters[key]
Look(c) ==
    /\ pc[c] = "look"
    /\ frame' = [frame EXCEPT ![c].exists = (limiters[frame[c].key] # NoBucket)]
    /\ pc' = [pc EXCEPT ![c] = IF limiters[frame[c].key] # NoBucket
                               THEN "take" ELSE "create"]
    /\ UNCHANGED <<redisURL, useRedis, clock, zset, expireAt, limiters,
                   cfgLimit, cfgWindow, req, log>>
    /\ UNCHANGED <<mutex, made>>
    /\ UNCHANGED <<webhookVars, gateVars>>

\* limiter = rate.NewLimiter(...); i.limiters[key] = limiter
Create(c) ==
    /\ pc[c] = "create"
    /\ limiters' = [limiters EXCEPT ![frame[c].key] =
                       NewLimiter(frame[c].limit, frame[c].window, clock)]
    /\ made' = Append(made, [key |-> frame[c].key, by |-> c, at |-> clock])
    /\ pc' = [pc EXCEPT ![c] = "take"]
    /\ UNCHANGED <<redisURL, useRedis, clock, zset, expireAt,
                   cfgLimit, cfgWindow, req, log>>
    /\ UNCHANGED <<mutex, frame>>
    /\ UNCHANGED <<webhookVars, gateVars>>

\* return limiter.Allow()
Take(c) ==
    /\ pc[c] = "take"
    /\ LET r == LimiterAllow(limiters[frame[c].key], clock)
       IN  /\ limiters' = [limiters EXCEPT ![frame[c].key] = r.bucket]
           /\ frame' = [frame EXCEPT ![c].allowed = r.allowed, ![c].at = clock]
    /\ pc' = [pc EXCEPT ![c] = "unlock"]
    /\ UNCHANGED <<redisURL, useRedis, clock, zset, expireAt,
                   cfgLimit, cfgWindow, req, log>>
    /\ UNCHANGED <<mutex, made>>
    /\ UNCHANGED <<webhookVars, gateVars>>

\* delete(i.limiters, key)
Delete(c) ==
    /\ pc[c] = "delete"
    /\ limiters' = InMemoryReset(limiters, frame[c].key)
    /\ pc' = [pc EXCEPT ![c] = "unlock"]
    /\ UNCHANGED <<redisURL, useRedis, clock, zset, expireAt,
                   cfgLimit, cfgWindow, req, log>>
    /\ UNCHANGED lockVars
    /\ UNCHANGED <<webhookVars, gateVars>>

\* i.limiters = make(map[string]*rate.Limiter)
Clear(c) ==
    /\ pc[c] = "clear"
    /\ limiters' = InMemoryCleanup(limiters)
    /\ pc' = [pc EXCEPT ![c] = "unlock"]
    /\ UNCHANGED <<redisURL, useRedis, clock, zset, expireAt,
                   cfgLimit, cfgWindow, req, log>>
    /\ UNCHANGED lockVars
    /\ UNCHANGED <<webhookVars, gateVars>>

\* the deferred i.mutex.Unlock() as the method returns
MutexUnlock(c) ==
    /\ pc[c] = "unlock"
    /\ mutex' = Unlock(mutex)
    /\ pc' = [pc EXCEPT ![c] = "idle"]
    /\ log' = Append(log,
                 CASE frame[c].op = "allow" ->
                        AllowEntry(frame[c].key, frame[c].limit, frame[c].window,
                                   frame[c].at, frame[c].allowed, frame[c].path)
                   [] frame[c].op = "reset" -> ResetEntry(frame[c].key, TRUE)
                   [] OTHER -> CleanupEntry)
    /\ UNCHANGED <<redisURL, useRedis, clock, zset, expireAt, limiters,
                   cfgLimit, cfgWindow, req>>
    /\ UNCHANGED <<frame, made>>
    /\ UNCHANGED <<webhookVars, gateVars>>

\* a step of a caller inside the in-memory limiter
LocalStep(c) ==
    \/ MutexLock(c)
    \/ Look(c)
    \/ Create(c)
    \/ Take(c)
    \/ Delete(c)
    \/ Clear(c)
    \/ MutexUnlock(c)

MaxThreadClock == 1

InitThreads ==
    /\ InitLimiter({"empty", "reachable"}, Limits, {MaxLimit})
    /\ InitGate
    /\ InitLock
    /\ InitWebhooks(WebhookRows({"u1"}, {{"job.completed"}}, {TRUE}),
                    WebhookRows({"u1"}, {{"job.failed"}}, {TRUE}))

NextThreads ==
    \/ Tick(MaxThreadClock)
    \/ \E c \in Callers, k \in ActiveKeys : CallAllow(c, k, cfgLimit, cfgWindow)
    \/ \E c \in Callers, k \in ActiveKeys : CallEval(c, k, cfgLimit, cfgWindow)
    \/ \E c \in Callers : EvalOk(c)
    \/ \E c \in Callers, ran \in BOOLEAN : EvalFails(c, ran)
    \/ \E c \in Callers, k \in ActiveKeys : CallReset(c, k)
    \/ \E c \in Callers, k \in ActiveKeys : CallDel(c, k)
    \/ \E c \in Callers, ok \in BOOLEAN : DelReturns(c, ok)
    \/ \E c \in Callers : CallCleanup(c)
    \/ \E c \in Callers : LocalStep(c)

SpecThreads == InitThreads /\ [][NextThreads]_vars


(***************************************************************************)
(* SpecSuspend: the callers of the limiter next to a webhook delivery.     *)
(* Nothing here depends on the time read, so the clock stands still.       *)
(***************************************************************************)
InitSuspend ==
    /\ InitLimiter({"empty", "reachable"}, {1}, {MaxLimit})
    /\ InitGate
    /\ InitLock
    /\ InitWebhooks(WebhookRows({"u1"}, {{"job.completed"}}, {TRUE}),
                    WebhookRows({"u1"}, {{"job.failed"}}, {TRUE}))

NextSuspend ==
    \/ \E c \in Callers, k \in ActiveKeys : CallAllow(c, k, cfgLimit, cfgWindow)
    \/ \E c \in Callers, k \in ActiveKeys : CallEval(c, k, cfgLimit, cfgWindow)
    \/ \E c \in Callers : EvalOk(c)
    \/ \E c \in Callers, ran \in BOOLEAN : EvalFails(c, ran)
    \/ \E c \in Callers, k \in ActiveKeys : CallReset(c, k)
    \/ \E c \in Callers, k \in ActiveKeys : CallDel(c, k)
    \/ \E c \in Callers, ok \in BOOLEAN : DelReturns(c, ok)
    \/ \E c \in Callers : CallCleanup(c)
    \/ \E c \in Callers : LocalStep(c)
    \/ \E id \in JobIds : updateJobStatus(id, "failed", "none", MaxTasks)
    \/ DeliveryStep

SpecSuspend == InitSuspend /\ [][NextSuspend]_vars

\* suspended in a call of the backend
Suspended(c) == pc[c] \in {"eval", "del"}

\* a delivery goroutine inside httpClient.Do or in its backoff sleep
Waiting(t) == tasks[t].pc \in {"wait", "sleep"}

\* C27: a caller is at an access of the bucket map only while it holds the
\* mutex, and only the holder changes the map; a caller suspended in a
\* backend call does not hold the mutex, and no step of a delivery (its
\* POST and its backoff sleep included) touches the mutex; so the holder is
\* always a caller inside the critical section whose next step can be
\* taken, and whenever a caller waits for the mutex some caller of the
\* in-memory limiter can step, whatever the backend and the webhook
\* endpoint do.
MutexNeverHeldSuspended ==
    /\ [](\A c \in Callers :
            /\ pc[c] \in Critical => mutex = c
            /\ Suspended(c) => mutex # c)
    /\ [](mutex # NoHolder =>
            /\ mutex \in Callers
            /\ pc[mutex] \in Critical
            /\ ENABLED LocalStep(mutex))
    /\ []((\E c \in Callers : pc[c] = "lock") =>
            \E d \in Callers : ENABLED LocalStep(d))
    /\ [][limiters' # limiters =>
            /\ mutex \in Callers
            /\ mutex' = mutex
            /\ pc[mutex] \in {"create", "take", "delete", "clear"}
            /\ pc'[mutex] # pc[mutex]]_vars
    /\ [][(tasks' # tasks \/ events' # events) => UNCHANGED lockVars]_vars

\* caller 1 is suspended in Eval and a delivery is inside its POST while
\* caller 2 holds the mutex in Allow and caller 3 waits for it
MutexNeverHeldSuspendedWitness ==
    /\ pc[1] = "eval"
    /\ \E t \in DOMAIN tasks : tasks[t].pc = "wait"
    /\ mutex = 2 /\ pc[2] = "take"
    /\ pc[3] = "lock"

\* no Reset and no Cleanup was called so far
NeverCleared ==
    /\ \A i \in DOMAIN log : log[i].op = "allow"
    /\ \A c \in Callers : pc[c] # "idle" => frame[c].op \in {"", "allow"}

MadeFor(k) == {i \in DOMAIN made : made[i].key = k}

\* the callers whose Allow on k began while k had no bucket and has by now
\* called limiter.Allow(), at the time `at`
FirstUsers(k, at) ==
    {c \in Callers : /\ frame[c].op = "allow" /\ frame[c].key = k
                     /\ frame[c].first
                     /\ pc[c] \in {"unlock", "idle"}
                     /\ frame[c].at = at}

\* the tokens taken from k's bucket so far
Drawn(k) ==
    Cardinality({i \in AllowsOf(k) : log[i].path # "redis" /\ log[i].allowed})
    + Cardinality({c \in Callers : /\ pc[c] = "unlock" /\ frame[c].op = "allow"
                                   /\ frame[c].key = k /\ frame[c].allowed})

NoDeadline == 0

\* context.Background()
Background == [deadline |-> NoDeadline]

\* context.WithTimeout(parent, d)
WithTimeout(parent, d) ==
    [deadline |-> IF parent.deadline = NoDeadline THEN d
                  ELSE Min(parent.deadline, d)]

PingSeconds == 5

\* NewRateLimiterService: the context of rdb.Ping
PingContext == WithTimeout(Background, PingSeconds)

\* allowRedis: the context of r.redisClient.Eval
EvalContext == Background

\* Reset: the context of r.redisClient.Del
DelContext == Background

\* NewWebhookService: http.Client{Timeout: 30 * time.Second}; 0 would be no
\* timeout
Timeout == 30

\* The scheduler runs every goroutine that can take a step, and a call
\* made with a deadline returns.
FairSuspend ==
    /\ \A c \in Callers : WF_vars(LocalStep(c))
    /\ \A t \in 1..MaxTasks :
          WF_vars(Timeout # NoDeadline /\ t \in DOMAIN tasks /\ TaskStep(t))
    /\ \A c \in Callers :
          WF_vars(/\ EvalContext.deadline # NoDeadline
                  /\ EvalOk(c) \/ \E ran \in BOOLEAN : EvalFails(c, ran))
    /\ \A c \in Callers :
          WF_vars(/\ DelContext.deadline # NoDeadline
                  /\ \E ok \in BOOLEAN : DelReturns(c, ok))

SpecSuspendLive == SpecSuspend /\ FairSuspend

\* the deadline the external call that c or t is suspended in was made with
DeadlineOfCaller(c) ==
    IF pc[c] = "eval" THEN EvalContext.deadline ELSE DelContext.deadline

AdmitsAt(members, exp, T, limit, window) ==
    LuaScript(IF exp # NoExpiry /\ T >= exp THEN {} ELSE members,
              T - window, T, limit).allowed

\* C31: a coordinated Allow that is denied records nothing: it adds no
\* timestamp, removes only timestamps at or before its window start, and
\* leaves the key's expiry as it was; so at every later time the key is
\* admitted or denied exactly as it would have been without the denied call.
DeniedRecordsNothing ==
    [][\A c \in Callers :
          (ScriptAnswers(c) /\ ~log'[Len(log')].allowed) =>
             LET k == req[c].key
             IN  /\ zset'[k] \subseteq zset[k]
                 /\ \A t \in zset[k] \ zset'[k] : t <= req[c].windowStart
                 /\ expireAt'[k] = expireAt[k]
                 /\ \A T \in clock..(clock + req[c].window + 1) :
                       AdmitsAt(zset'[k], expireAt'[k], T,
                                req[c].limit, req[c].window)
                         = AdmitsAt(zset[k], expireAt[k], T,
                                    req[c].limit, req[c].window)]_vars

\* a call was admitted, the next was denied, and the key was admitted again
\* as soon as the first timestamp left the window
DeniedRecordsNothingWitness ==
    /\ Len(log) = 3
    /\ \A i \in 1..3 : log[i].op = "allow" /\ log[i].path = "redis"
    /\ log[1].allowed /\ ~log[2].allowed /\ log[3].allowed
    /\ log[3].at = log[1].at + log[1].window


(***************************************************************************)
(* SpecExpiry: one caller of the backend, with a window shorter and a      *)
(* window longer than the key's expiry, and a clock that runs past the     *)
(* expiry.  The backend answers at once: no time passes while an Eval is   *)
(* in flight.                                                              *)
(***************************************************************************)
MaxLate == 1

InitExpiry ==
    /\ InitLimiter({"reachable"}, {1}, {MaxLimit, ExpireTicks + 1})
    /\ InitGate
    /\ InitLock
    /\ InitWebhooks(WebhookRows({"u1"}, {{"job.completed"}}, {TRUE}),
                    WebhookRows({"u1"}, {{"job.completed"}}, {TRUE}))

NextExpiry ==
    \/ pc[1] = "idle" /\ Tick(ExpireTicks + MaxLate)
    \/ \E k \in ActiveKeys : Allow(1, k, cfgLimit, cfgWindow, MaxSeqOps)
    \/ EvalOk(1)

SpecExpiry == InitExpiry /\ [][NextExpiry]_vars

\* C32: whatever the window, the key's expiry (one hour after the last
\* admitted call) never takes away a recorded timestamp that a call made
\* now would still count, so the calls admitted with readings inside one
\* window are never more than the limit.
ExpiryKeepsWindow ==
    /\ \A k \in Keys : \A t \in zset[k] :
          t > clock - cfgWindow => t \in Live(k)
    /\ \A k \in Keys, t \in 0..clock :
          Cardinality(ScriptAdmitted(k, t - cfgWindow, t)) <= cfgLimit


(***************************************************************************)
(* SpecZero: one caller whose calls ask for the configured limit or for    *)
(* limit 0.  window / time.Duration(limit) is an integer division: with    *)
(* limit 0 it panics (integer divide by zero), before any bucket is made   *)
(* or stored; the deferred Unlock runs and the call does not return.       *)
(***************************************************************************)
\* InMemoryRateLimiter.Allow gets to the division: the key has no bucket
DividesByZero(lims, k, limit) == lims[k] = NoBucket /\ limit = 0

\* RateLimiterService.Allow, the in-memory call included
AllowOrPanic(c, k, l, w) ==
    IF ~useRedis /\ DividesByZero(limiters, k, l)
    THEN /\ pc[c] = "idle"
         /\ Len(log) < MaxSeqOps
         /\ log' = Append(log, AllowEntry(k, l, w, clock, FALSE, "panic"))
         /\ UNCHANGED <<redisURL, useRedis, clock, zset, expireAt, limiters,
                        cfgLimit, cfgWindow, pc, req>>
         /\ UNCHANGED <<webhookVars, gateVars, lockVars>>
    ELSE Allow(c, k, l, w, MaxSeqOps)

\* allowRedis, Eval returned an error: the in-memory call decides, or panics
EvalErrOrPanic(c, ran) ==
    IF pc[c] = "eval" /\ DividesByZero(limiters, req[c].key, req[c].limit)
    THEN /\ LET s == RunScript(req[c].key, req[c])
            IN  /\ zset' = IF ran THEN s.zset ELSE zset
                /\ expireAt' = IF ran THEN s.expireAt ELSE expireAt
         /\ log' = Append(log, AllowEntry(req[c].key, req[c].limit,
                                          req[c].window, clock, FALSE, "panic"))
         /\ pc' = [pc EXCEPT ![c] = "idle"]
         /\ req' = [req EXCEPT ![c] = NoReq]
         /\ UNCHANGED <<redisURL, useRedis, clock, limiters, cfgLimit, cfgWindow>>
         /\ UNCHANGED <<webhookVars, gateVars, lockVars>>
    ELSE EvalErr(c, ran)

InitZero ==
    /\ InitLimiter({"empty", "reachable"}, Limits, {MaxLimit})
    /\ InitGate
    /\ InitLock
    /\ InitWebhooks(WebhookRows({"u1"}, {{"job.completed"}}, {TRUE}),
                    WebhookRows({"u1"}, {{"job.completed"}}, {TRUE}))

NextZero ==
    \/ Tick(MaxClock)
    \/ \E k \in ActiveKeys, l \in {0, cfgLimit} : AllowOrPanic(1, k, l, cfgWindow)
    \/ EvalOk(1)
    \/ \E ran \in BOOLEAN : EvalErrOrPanic(1, ran)

SpecZero == InitZero /\ [][NextZero]_vars

\* C33: an Allow with limit 0 is denied and returns normally, under the
\* coordinated and under the local strategy.
ZeroLimitDenies ==
    \A i \in DOMAIN log :
        (log[i].op = "allow" /\ log[i].limit = 0) =>
            /\ ~log[i].allowed
            /\ log[i].path # "panic"


\* the Allow calls a rate-limit middleware made for request c
GateAllows(c) ==
    {j \in DOMAIN c.trace : /\ c.trace[j].ev = "Allow"
                            /\ c.trace[j].name \in {"GlobalRateLimit",
                                                     "UserRateLimit"}}

HasBody(c, body) == \E j \in DOMAIN c.body : c.body[j] = body

\* C34: Allow returns a nil error whichever way the call is decided (in
\* memory, by the script, or by the fallback after a failed Eval); so no
\* request is answered "Rate limiter error", and no request passes a
\* rate-limit middleware by its skip-on-error branch: every request that
\* went through one carries that middleware's headers.
AllowReturnsNoError ==
    /\ \A k \in DOMAIN limiters, l \in {cfgLimit, GlobalLimit}, eval \in Evals :
          ~AllowCall(k, l, cfgWindow, eval).err
    /\ \A c \in {served[i] : i \in DOMAIN served} \cup {ctx} :
          /\ ~HasBody(c, "Rate limiter error")
          /\ c.status # 500 \/ HasBody(c, "data")
          /\ \A j \in GateAllows(c) : Exposes(c, c.trace[j])

\* a request whose Eval failed was decided by the fallback and served
AllowReturnsNoErrorWitness ==
    /\ Len(served) >= 1
    /\ served[1].status \in {200, 201}
    /\ GateAllows(served[1]) # {}
    /\ \E j \in DOMAIN log : log[j].path = "fallback" /\ log[j].allowed


(***************************************************************************)
(* SpecStore: the retry loop with dbService.Update failing or not.         *)
(***************************************************************************)
Saves == SUBSET {"attempt", "schedule"}

HandleReplySavingScheduleAlways(t, reply, saves) ==
    /\ tasks[t].pc = "wait"
    /\ LET k    == tasks[t]
           n    == Len(k.posts)
           ev1  == AfterReply(k.ev, reply)
           last == ~(k.attempt < maxRetries - 1)
           ev2  == IF last
                   THEN [ev1 EXCEPT !.nextRetryAt = NextRetry(k.now)]
                   ELSE ev1
           row1 == IF "attempt" \in saves THEN ev1 ELSE events[k.rid]
           row2 == IF last /\ "schedule" \in saves THEN ev2 ELSE row1
       IN  /\ events' = [events EXCEPT ![k.rid] = row2]
           /\ tasks' = [tasks EXCEPT
                 ![t].ev = ev2,
                 ![t].posts[n].reply = reply,
                 ![t].pc = IF reply # 0 /\ IsSuccess(reply) THEN "done"
                           ELSE IF last THEN "done" ELSE "sleep"]
    /\ UNCHANGED <<webhooks, jobs, dispatches, nUpdates>>
    /\ UNCHANGED <<limiterVars, gateVars, lockVars>>

\* sendWebhookWithRetries from the reply on, each dbService.Update (a Save of
\* the whole record) succeeding only when named in `saves`: "attempt" is the
\* Update after the attempt, "schedule" the one after the loop
HandleReplySaving(t, reply, saves) ==
    /\ tasks[t].pc = "wait"
    /\ LET k      == tasks[t]
           n      == Len(k.posts)
           ev1    == AfterReply(k.ev, reply)
           last   == ~(k.attempt < maxRetries - 1)
           failed == reply = 0 \/ ~IsSuccess(reply)
           ev2    == IF failed /\ last
                     THEN [ev1 EXCEPT !.nextRetryAt = NextRetry(k.now)]
                     ELSE ev1
           row1   == IF "attempt" \in saves THEN ev1 ELSE events[k.rid]
           row2   == IF failed /\ last /\ "schedule" \in saves
                     THEN ev2 ELSE row1
       IN  /\ events' = [events EXCEPT ![k.rid] = row2]
           /\ tasks' = [tasks EXCEPT
                 ![t].ev = ev2,
                 ![t].posts[n].reply = reply,
                 ![t].pc = IF reply # 0 /\ IsSuccess(reply) THEN "done"
                           ELSE IF last THEN "done" ELSE "sleep"]
    /\ UNCHANGED <<webhooks, jobs, dispatches, nUpdates>>
    /\ UNCHANGED <<limiterVars, gateVars, lockVars>>

NextStore ==
    \/ \E id \in JobIds, st \in {"done", "failed"} :
          updateJobStatus(id, st, "none", MaxTasks)
    \/ \E t \in DOMAIN tasks, ok \in BOOLEAN : CreateEventRecord(t, ok)
    \/ \E t \in DOMAIN tasks : SendRequest(t)
    \/ \E t \in DOMAIN tasks, reply \in Replies, saves \in Saves :
          HandleReplySaving(t, reply, saves)
    \/ \E t \in DOMAIN tasks : Wake(t)

SpecStore == InitRetry /\ [][NextStore]_vars

Closed(ev) == ev.delivered \/ ev.nextRetryAt # NoTime

\* C35: every stored delivery record has an attempt count in 0..3; a
\* delivered record has at least one attempt and no deferred retry; a record
\* with a deferred retry is not delivered and has three attempts; and a
\* record that is delivered or has a deferred retry is never written again.
RecordShape ==
    /\ [](\A i \in DOMAIN events :
             /\ events[i].attemptCount \in 0..maxRetries
             /\ events[i].delivered =>
                    /\ events[i].attemptCount >= 1
                    /\ events[i].nextRetryAt = NoTime
             /\ events[i].nextRetryAt # NoTime =>
                    /\ ~events[i].delivered
                    /\ events[i].attemptCount = maxRetries)
    /\ [][\A i \in DOMAIN events : Closed(events[i]) => events'[i] = events[i]]_vars

\* one record delivered at its second attempt, its goroutine over
RecordShapeWitness ==
    \E t \in DOMAIN tasks :
        /\ tasks[t].pc = "done"
        /\ tasks[t].rid # 0
        /\ events[tasks[t].rid].delivered
        /\ events[tasks[t].rid].attemptCount = 2
        /\ events[tasks[t].rid].statusCode = 200


\* what one attempt alone would leave in the record: no status code on a
\* transport error, else the reply's code; and the error text or the body
StatusOf(reply) == IF reply = 0 THEN 0 ELSE reply

ResponseOf(reply) ==
    IF reply = 0 THEN "transport error"
    ELSE IF IsSuccess(reply) THEN "ok body" ELSE "error body"

\* C36: once an attempt is stored, the record's status code and its response
\* text are both those of that attempt, the latest one; the status code of
\* an earlier attempt is never stored next to a later attempt's text.
StatusMatchesResponse ==
    \A t \in DOMAIN tasks :
        LET k == tasks[t]
            n == Len(k.posts)
        IN  (/\ k.rid # 0
             /\ n >= 1
             /\ k.posts[n].reply # -1
             /\ events[k.rid].attemptCount = n) =>
                /\ events[k.rid].statusCode = StatusOf(k.posts[n].reply)
                /\ events[k.rid].response = ResponseOf(k.posts[n].reply)


\* C37: the payload is serialized once per delivery: all attempts of a
\* delivery send the same body bytes, the same X-Webhook-Delivery identifier,
\* which is the id of the delivery's record, and the same signature; and the
\* payload stored in the record is the body that was sent.
SerializedOnce ==
    \A t \in DOMAIN tasks :
        \A i \in DOMAIN tasks[t].posts :
            LET post == tasks[t].posts[i]
            IN  /\ post.body = tasks[t].posts[1].body
                /\ post.signature = tasks[t].posts[1].signature
                /\ post.delivery = tasks[t].posts[1].delivery
                /\ post.delivery = tasks[t].rid
                /\ tasks[t].rid \in DOMAIN events
                /\ events[tasks[t].rid].payload = post.body

\* three signed attempts of one delivery have left
SerializedOnceWitness ==
    \E t \in DOMAIN tasks :
        /\ Len(tasks[t].posts) = maxRetries
        /\ tasks[t].posts[maxRetries].signature # NoHeader
        /\ events[tasks[t].rid].attemptCount = maxRetries


\* C38: SendWebhookEvent is called only by an update that has stored a
\* terminal status and returns nil; an update whose job is not found or
\* whose Update fails stores nothing and dispatches nothing; and a dispatch
\* that fails leaves the stored status in place and the update returning nil.
DispatchAfterPersist ==
    [][\A id \in JobIds, st \in BusStatuses, db \in StorageFailures :
          updateJobStatus(id, st, db, MaxTasks) =>
             /\ dispatches' # dispatches =>
                   /\ JobStatusOf(st) \in {"completed", "failed"}
                   /\ jobs'[id].status = JobStatusOf(st)
                   /\ updateJobStatusReturns(st, db) = "nil"
             /\ db \in {"FindOne", "Update"} =>
                   /\ updateJobStatusReturns(st, db) # "nil"
                   /\ jobs' = jobs
                   /\ dispatches' = dispatches
                   /\ tasks' = tasks
             /\ (db = "FindWhere" /\ JobStatusOf(st) # "") =>
                   /\ jobs'[id].status = JobStatusOf(st)
                   /\ updateJobStatusReturns(st, db) = "nil"]_vars

\* a dispatch failed, and the status its update stored is in place
DispatchAfterPersistWitness ==
    \E d \in DOMAIN dispatches :
        /\ dispatches[d].failed
        /\ dispatches[d].event = "job.failed"
        /\ jobs[dispatches[d].job].status = "failed"
        /\ tasks = <<>>


(***************************************************************************)
(* SpecCreate: JobService.CreateJob next to the status updates of the jobs *)
(* it published.                                                           *)
(***************************************************************************)
\* the values of xid.New().String()
NewJobIds == {"x1", "x2"}

\* the call of CreateJob that fails, if one does
CreateFailures == {"none", "Create", "Publish"}

CreateJobReturns(fail) ==
    IF fail = "Create" THEN "failed to create job"
    ELSE IF fail = "Publish" THEN "failed to publish job to NATS"
    ELSE "nil"

\* models.BenchJob as published to the subject "jobs"
BenchJob(id) == [job |-> id]

\* JobService.CreateJob: Create the row with status received, then Publish
CreateJob(id, user, fail) ==
    /\ \A i \in DOMAIN log : log[i].job # id
    /\ jobs' = IF fail = "Create"
               THEN jobs
               ELSE [j \in DOMAIN jobs \cup {id} |->
                        IF j = id
                        THEN [status |-> "received", owner |-> user]
                        ELSE jobs[j]]
    /\ published' = IF fail = "none"
                    THEN Append(published, BenchJob(id))
                    ELSE published
    /\ log' = Append(log, [op |-> "CreateJob", job |-> id,
                           err |-> CreateJobReturns(fail)])
    /\ UNCHANGED <<redisURL, useRedis, clock, zset, expireAt, limiters,
                   cfgLimit, cfgWindow, pc, req>>
    /\ UNCHANGED <<webhooks, events, tasks, dispatches, nUpdates>>
    /\ UNCHANGED <<keyed, served, ctx>>
    /\ UNCHANGED lockVars

\* the worker took a published job and reports a status for it
StatusUpdate(st) ==
    \E i \in DOMAIN published :
        updateJobStatus(published[i].job, st,
                        IF published[i].job \in DOMAIN jobs
                        THEN "none" ELSE "FindOne",
                        MaxTasks)

InitCreate ==
    /\ InitLimiter({"empty"}, {1}, {2})
    /\ InitGate
    /\ InitLock
    /\ webhooks = [w \in WebhookIds |->
                      WebhookRow("u1", {"job.completed"}, w = 1)]
    /\ jobs = [j \in {} |-> 0]
    /\ events = <<>>
    /\ tasks = <<>>
    /\ dispatches = <<>>
    /\ nUpdates = 0

NextCreate ==
    \/ \E id \in NewJobIds, u \in Users, fail \in CreateFailures :
          CreateJob(id, u, fail)
    \/ \E st \in {"running", "done", "failed"} : StatusUpdate(st)
    \/ DeliveryStep

SpecCreate == InitCreate /\ [][NextCreate]_vars

PublishedJobs == {published[i].job : i \in DOMAIN published}

\* C39: every published job has a stored record, so the status update of a
\* published job finds it; and after a CreateJob that returned an error no
\* record with status received is left stored without having been published.
PersistBeforePublish ==
    /\ PublishedJobs \subseteq DOMAIN jobs
    /\ \A i \in DOMAIN log :
          log[i].err # "nil" =>
             ~(/\ log[i].job \in DOMAIN jobs
               /\ jobs[log[i].job].status = "received"
               /\ log[i].job \notin PublishedJobs)


(***************************************************************************)
(* SpecVary: the in-memory limiter called with a limit and a window that   *)
(* change from call to call.                                               *)
(***************************************************************************)
InitVary ==
    /\ InitLimiter({"empty"}, {1}, {MaxLimit})
    /\ InitGate
    /\ InitLock
    /\ InitWebhooks(WebhookRows({"u1"}, {{"job.completed"}}, {TRUE}),
                    WebhookRows({"u1"}, {{"job.completed"}}, {TRUE}))

NextVary ==
    \/ Tick(MaxClock)
    \/ \E k \in ActiveKeys, l \in Limits, w \in Windows :
          Allow(1, k, l, w, MaxSweepOps)
    \/ \E k \in ActiveKeys : Reset(1, k, TRUE, MaxSweepOps)
    \/ Cleanup(MaxSweepOps)

SpecVary == InitVary /\ [][NextVary]_vars

\* C40: a key's bucket keeps the rate and the burst of the Allow call that
\* created it: a later Allow on the key, whatever its limit and window, is
\* decided by that bucket and leaves its rate and burst as they were; a new
\* bucket takes the rate and burst of its call; and only Reset and Cleanup
\* remove a bucket.
BucketKeepsFirstRate ==
    [][\A k \in Keys :
          /\ (/\ Len(log') = Len(log) + 1
              /\ log'[Len(log')].op = "allow"
              /\ log'[Len(log')].key = k) =>
                LET e == log'[Len(log')]
                IN  IF limiters[k] # NoBucket
                    THEN /\ limiters'[k].interval = limiters[k].interval
                         /\ limiters'[k].burst = limiters[k].burst
                         /\ e.allowed = LimiterAllow(limiters[k], clock).allowed
                    ELSE /\ limiters'[k].interval = Every(e.window, e.limit)
                         /\ limiters'[k].burst = e.limit
          /\ (limiters[k] # NoBucket /\ limiters'[k] = NoBucket) =>
                /\ Len(log') = Len(log) + 1
                /\ log'[Len(log')].op \in {"reset", "cleanup"}]_vars

\* a bucket made for limit 1 denies the next call at the same instant,
\* though that call asks for limit 2
BucketKeepsFirstRateWitness ==
    \E i \in DOMAIN log :
        /\ i + 1 \in DOMAIN log
        /\ log[i].op = "allow" /\ log[i + 1].op = "allow"
        /\ log[i].key = log[i + 1].key
        /\ log[i].at = log[i + 1].at
        /\ log[i].limit = 1 /\ log[i].allowed
        /\ log[i + 1].limit = 2 /\ ~log[i + 1].allowed
        /\ limiters[log[i].key] # NoBucket
        /\ limiters[log[i].key].burst = 1

=============================================================================
